---- MODULE Spec2Model ----
(***************************************************************************)
(* Question extraction engine of the document service.                     *)
(*                                                                         *)
(* A text is a sequence of characters; every character is written as a     *)
(* short string.  Characters outside ASCII carry a mnemonic name.          *)
(* The regular expressions of app/services/document_parser.py are kept as  *)
(* data and run by a matcher with the priorities of Python's re module     *)
(* (greedy and lazy repeats, ordered alternation, capture groups,          *)
(* lookahead, MULTILINE end of line, DOTALL any-character).                *)
(***************************************************************************)
EXTENDS Integers, Sequences, FiniteSets, TLC

(* ------------------------------ characters ----------------------------- *)
DOT == "."
DUN == "dun"            \* the ideographic comma 、
SP == " "
NL == "nl"              \* line feed
COLON == ":"
FCOLON == "fc"          \* the full-width colon ：
LP == "("
RP == ")"
FLP == "flp"            \* the full-width (
FRP == "frp"            \* the full-width )
US == "_"
DA == "da"              \* 答
AN == "an"              \* 案
JIE == "jie"            \* 解
XI == "xi"              \* 析
DUI == "dui"            \* 对
CUO == "cuo"            \* 错
ZHENG == "zheng"        \* 正
QUE == "que"            \* 确
WU == "wu"              \* 误
TICK == "tick"          \* √
CROSS == "cross"        \* ×

Digit == {"1", "2"}
Space == {SP, NL}
Sep == {DOT, DUN}
ABCD == {"A", "B", "C", "D"}
Plain == {"q", "a", "b", "c", "d", "x", "e"}
JudgeChars == {DUI, CUO, ZHENG, QUE, WU, TICK, CROSS}
Char == Digit \cup Space \cup Sep \cup ABCD \cup Plain \cup JudgeChars
          \cup {COLON, FCOLON, LP, RP, FLP, FRP, US, DA, AN, JIE, XI}

(* --------------------------- regular expressions ----------------------- *)
Node(k, cs, mn, mx, lazy, g, alts) ==
  [k |-> k, cs |-> cs, min |-> mn, max |-> mx, lazy |-> lazy, g |-> g, alts |-> alts]
\* one character of the class cs
One(cs) == Node("set", cs, 1, 1, FALSE, 0, <<>>)
\* cs{mn,mx}; mx = 0 stands for no upper limit
Greedy(cs, mn, mx) == Node("rep", cs, mn, mx, FALSE, 0, <<>>)
Lazy(cs, mn, mx) == Node("rep", cs, mn, mx, TRUE, 0, <<>>)
Open(g) == Node("open", {}, 0, 0, FALSE, g, <<>>)
Close(g) == Node("close", {}, 0, 0, FALSE, g, <<>>)
Alt(alts) == Node("alt", {}, 0, 0, FALSE, 0, alts)
Look(alts) == Node("look", {}, 0, 0, FALSE, 0, alts)
Eol == Node("eol", {}, 0, 0, FALSE, 0, <<>>)

\* six capture groups at most (the choice patterns); 0 marks a group not set
NoCaps == [g \in 1..6 |-> [s |-> 0, e |-> 0]]
Fail == [ok |-> FALSE, s |-> 0, e |-> 0, caps |-> NoCaps]

(***************************************************************************)
(* The matcher.  A thread is one way the pattern read so far has matched:  *)
(* the position i reached, the position s where the match began and the    *)
(* groups set.  The threads are kept in the order in which a backtracking  *)
(* matcher would try them, so the first thread left after the last node is *)
(* the match re returns.  Of two threads at the same position the later    *)
(* one is dropped: it continues exactly as the earlier one, which is       *)
(* preferred.                                                              *)
(***************************************************************************)
Thread(i) == [i |-> i, s |-> i, tag |-> 0, caps |-> NoCaps]
\* number of consecutive characters of cs from position i on, at most mx
Run(t, i, cs, mx) ==
  LET stops == {k \in i..Len(t) : t[k] \notin cs}
      first == IF stops = {} THEN Len(t) + 1
               ELSE CHOOSE k \in stops : \A j \in stops : k <= j
      r == first - i
  IN IF mx > 0 /\ r > mx THEN mx ELSE r

\* a lazily defined sequence, evaluated once
Eager(f) == f \o <<>>

\* The threads after a repeat.  Thread k continues at fewest[k]..most[k];
\* a position belongs to the first thread that reaches it, and the
\* positions come out thread by thread, fewest characters first when the
\* repeat is lazy, most first when it is greedy.
RepExpand(t, n, ths) ==
  LET fewest == Eager([k \in 1..Len(ths) |-> ths[k].i + n.min])
      most == Eager([k \in 1..Len(ths) |-> ths[k].i + Run(t, ths[k].i, n.cs, n.max)])
      reached == UNION {fewest[k]..most[k] : k \in 1..Len(ths)}
      owner == Eager([q \in 1..(Len(t) + 1) |->
                 IF q \notin reached THEN 0
                 ELSE CHOOSE k \in 1..Len(ths) :
                        /\ fewest[k] <= q /\ q <= most[k]
                        /\ \A j \in 1..(k - 1) : ~(fewest[j] <= q /\ q <= most[j])])
      before(p, q) == \/ owner[p] < owner[q]
                      \/ owner[p] = owner[q] /\ (IF n.lazy THEN p < q ELSE p > q)
      rank == Eager([q \in 1..(Len(t) + 1) |-> Cardinality({p \in reached : before(p, q)})])
  IN [j \in 1..Cardinality(reached) |->
        LET q == CHOOSE p \in reached : rank[p] = j - 1
        IN [ths[owner[q]] EXCEPT !.i = q]]

RECURSIVE RunSeq(_, _, _)
RECURSIVE AltRuns(_, _, _, _)
\* the threads after each alternative in turn, run from the same threads
AltRuns(t, alts, a, ths) ==
  IF a > Len(alts) THEN <<>>
  ELSE RunSeq(t, alts[a], ths) \o AltRuns(t, alts, a + 1, ths)

\* The threads after an alternation: what the first thread became through
\* the first alternative, then through the second, then what the second
\* thread became, and so on; a position is kept where it comes first.
AltExpand(t, n, ths) ==
  LET outcomes == AltRuns(t, n.alts, 1, [k \in 1..Len(ths) |-> [ths[k] EXCEPT !.tag = k]])
      before(i, j) == \/ outcomes[i].tag < outcomes[j].tag
                      \/ outcomes[i].tag = outcomes[j].tag /\ i < j
      kept == {j \in 1..Len(outcomes) :
                 \A i \in 1..Len(outcomes) : outcomes[i].i = outcomes[j].i /\ i # j => before(j, i)}
      rank == Eager([j \in 1..Len(outcomes) |-> Cardinality({i \in kept : before(i, j)})])
  IN [m \in 1..Cardinality(kept) |-> outcomes[CHOOSE j \in kept : rank[j] = m - 1]]

\* the threads after node n
Step(t, n, ths) ==
  CASE n.k = "set" ->
         LET sel == SelectSeq(ths, LAMBDA th : th.i <= Len(t) /\ t[th.i] \in n.cs)
         IN [k \in 1..Len(sel) |-> [sel[k] EXCEPT !.i = @ + 1]]
    [] n.k = "rep" -> RepExpand(t, n, ths)
    [] n.k = "open" -> [k \in 1..Len(ths) |-> [ths[k] EXCEPT !.caps[n.g].s = ths[k].i]]
    [] n.k = "close" -> [k \in 1..Len(ths) |-> [ths[k] EXCEPT !.caps[n.g].e = ths[k].i]]
    [] n.k = "alt" -> AltExpand(t, n, ths)
    [] n.k = "look" ->
         SelectSeq(ths, LAMBDA th :
           \E a \in 1..Len(n.alts) : Len(RunSeq(t, n.alts[a], <<th>>)) > 0)
    [] n.k = "eol" ->
         SelectSeq(ths, LAMBDA th : th.i = Len(t) + 1 \/ (th.i <= Len(t) /\ t[th.i] = NL))

RECURSIVE RunNodes(_, _, _, _, _)
\* the threads after the nodes lo..hi of rs, the first half and then the
\* second; the match has failed as soon as no thread is left
RunNodes(t, rs, lo, hi, ths) ==
  IF Len(ths) = 0 \/ lo > hi THEN ths
  ELSE IF lo = hi THEN Step(t, rs[lo], ths)
  ELSE RunNodes(t, rs, (lo + hi) \div 2 + 1, hi, RunNodes(t, rs, lo, (lo + hi) \div 2, ths))

\* the threads after the whole of rs
RunSeq(t, rs, ths) == RunNodes(t, rs, 1, Len(rs), ths)

\* the preferred thread as a match object
AsMatch(ths) ==
  IF Len(ths) = 0 THEN Fail
  ELSE [ok |-> TRUE, s |-> ths[1].s, e |-> ths[1].i, caps |-> ths[1].caps]

\* re.match: the pattern at the start of t
re_match(re, t) == AsMatch(RunSeq(t, re, <<Thread(1)>>))

\* the leftmost match that starts at position from or later
re_search(re, t, from) ==
  AsMatch(RunSeq(t, re, [k \in 1..(Len(t) + 2 - from) |-> Thread(from + k - 1)]))

RECURSIVE re_finditer(_, _, _)
\* the non-overlapping matches, left to right
re_finditer(re, t, from) ==
  LET m == re_search(re, t, from)
  IN IF ~m.ok THEN <<>>
     ELSE <<m>> \o re_finditer(re, t, IF m.e > m.s THEN m.e ELSE m.e + 1)

\* match.group(g); <<>> when the group took no part in the match (None)
group_is_none(m, g) == m.caps[g].s = 0 \/ m.caps[g].e = 0
group(t, m, g) ==
  IF group_is_none(m, g) THEN <<>> ELSE <<SubSeq(t, m.caps[g].s, m.caps[g].e - 1)>>

RECURSIVE lstrip(_)
lstrip(s) == IF Len(s) > 0 /\ Head(s) \in Space THEN lstrip(Tail(s)) ELSE s
RECURSIVE rstrip(_)
rstrip(s) == IF Len(s) > 0 /\ s[Len(s)] \in Space THEN rstrip(SubSeq(s, 1, Len(s) - 1)) ELSE s
\* str.strip()
strip(s) == rstrip(lstrip(s))

\* an option left as the group holds it, letter and separator included
clean_option_keeps_prefix(X, s) == s

\* re.sub(r'^X[\.、]\s*', '', s) for the option letter X
clean_option(X, s) ==
  LET m == re_match(<<One({X}), One(Sep), Greedy(Space, 0, 0)>>, s)
  IN IF m.ok THEN SubSeq(s, m.e, Len(s)) ELSE s

RECURSIVE join(_)
\* "\n".join(ps)
join(ps) ==
  IF Len(ps) = 0 THEN <<>>
  ELSE IF Len(ps) = 1 THEN ps[1]
  ELSE ps[1] \o <<NL>> \o join(Tail(ps))

\* s in t, for strings
contains(t, s) == \E i \in 1..(Len(t) - Len(s) + 1) : SubSeq(t, i, i + Len(s) - 1) = s

(* ------------------------------- patterns ------------------------------ *)
\* \d+[\.、]?\s*.+?
NumberedContent == <<Greedy(Digit, 1, 0), Greedy(Sep, 0, 1), Greedy(Space, 0, 0), Lazy(Char, 1, 0)>>
\* \s+
Spaces == <<Greedy(Space, 1, 0)>>
\* \s+答案[：:]\s*
AnswerMark == <<Greedy(Space, 1, 0), One({DA}), One({AN}), One({FCOLON, COLON}), Greedy(Space, 0, 0)>>
\* (?=\d+[\.、]|$)
UntilNext == <<Look(<< <<Greedy(Digit, 1, 0), One(Sep)>>, <<Eol>> >>)>>
\* (X[seps]\s*.+?) as group g
OptionGroup(g, X, seps) ==
  <<Open(g), One({X}), One(seps), Greedy(Space, 0, 0), Lazy(Char, 1, 0), Close(g)>>
\* X[seps]\s*(.+?) with group g on the body alone
OptionBody(g, X, seps) ==
  <<One({X}), One(seps), Greedy(Space, 0, 0), Open(g), Lazy(Char, 1, 0), Close(g)>>

\* document_parser.py:361
single_choice_pattern ==
  <<Open(1)>> \o NumberedContent \o <<Close(1)>> \o Spaces
    \o OptionGroup(2, "A", Sep \cup Space) \o Spaces
    \o OptionGroup(3, "B", Sep \cup Space) \o Spaces
    \o OptionGroup(4, "C", Sep \cup Space) \o Spaces
    \o OptionGroup(5, "D", Sep \cup Space)
    \o AnswerMark \o <<Open(6), One(ABCD), Close(6)>>

\* document_parser.py:369
single_choice_alt_pattern ==
  <<Open(1)>> \o NumberedContent \o <<Close(1)>> \o Spaces
    \o OptionBody(2, "A", Sep \cup Space) \o Spaces
    \o OptionBody(3, "B", Sep \cup Space) \o Spaces
    \o OptionBody(4, "C", Sep \cup Space) \o Spaces
    \o OptionBody(5, "D", Sep \cup Space)
    \o AnswerMark \o <<Open(6), One(ABCD), Close(6)>>

\* document_parser.py:404
multiple_choice_pattern ==
  <<Open(1)>> \o NumberedContent \o <<Close(1)>> \o Spaces
    \o OptionGroup(2, "A", Sep) \o Spaces
    \o OptionGroup(3, "B", Sep) \o Spaces
    \o OptionGroup(4, "C", Sep) \o Spaces
    \o OptionGroup(5, "D", Sep)
    \o AnswerMark \o <<Open(6), Greedy(ABCD, 1, 0), Close(6)>>

\* the pattern with its group on the first branch alone, which leaves group 1
\* unset whenever the second branch matches
pattern_with_answer_group_in_branch ==
  <<Alt(<< <<Open(1)>> \o NumberedContent
             \o <<One({FLP, LP}), Lazy(Char, 0, 0), One({FRP, RP}), Close(1)>>,
           <<Lazy(Char, 1, 0), One({US}), One({US}), One({US}), Lazy(Char, 1, 0)>> >>)>>
    \o AnswerMark \o <<Open(2), Lazy(Char, 1, 0), Close(2)>> \o UntilNext

\* document_parser.py:443
pattern_with_answer ==
  <<Open(1),
    Alt(<< NumberedContent \o <<One({FLP, LP}), Lazy(Char, 0, 0), One({FRP, RP})>>,
           <<Lazy(Char, 1, 0), One({US}), One({US}), One({US}), Lazy(Char, 1, 0)>> >>),
    Close(1)>>
    \o AnswerMark \o <<Open(2), Lazy(Char, 1, 0), Close(2)>> \o UntilNext

\* document_parser.py:543
judge_pattern ==
  <<Open(1)>> \o NumberedContent \o <<Close(1)>>
    \o AnswerMark \o <<Open(2), One({DUI, CUO, ZHENG, QUE, CUO, WU, TICK, CROSS}), Close(2)>>

\* document_parser.py:575
essay_pattern ==
  <<Open(1)>> \o NumberedContent \o <<Close(1)>>
    \o <<Greedy(Space, 1, 0), One({JIE}), One({XI}), One({FCOLON, COLON}), Greedy(Space, 0, 0)>>
    \o <<Open(2), Lazy(Char, 1, 0), Close(2)>> \o UntilNext

\* r'^\d+[\.、]' of the paragraph scanner
question_start_pattern == <<Greedy(Digit, 1, 0), One(Sep)>>

(* ------------------------------- records ------------------------------- *)
\* models.QuestionResult.  A str is a sequence of characters (the answers
\* "true" and "false" are one element each); an Optional field is <<>> for
\* None or <<v>>.  grammar, pos and end are history fields: the pass that made
\* the record and where its match (or its flush) began and ended.
QuestionResult(type, content, options, answer, explanation, difficulty, grade, subject, grammar, pos, end) ==
  [type |-> type, content |-> content, options |-> options, answer |-> answer,
   explanation |-> explanation, images |-> <<>>, difficulty |-> difficulty,
   grade |-> grade, subject |-> subject, tags |-> <<>>,
   grammar |-> grammar, pos |-> pos, end |-> end]

\* the text of group g of match m, stripped
stripped(t, m, g) == strip(group(t, m, g)[1])

\* a match with a group that took no part: .strip() on None raises
GroupMissing(ms, gs) == \E k \in 1..Len(ms) : \E g \in gs : group_is_none(ms[k], g)

\* the record both choice passes build from a match
choice_record(type, t, m) ==
  QuestionResult(type, stripped(t, m, 1),
                 << <<clean_option("A", stripped(t, m, 2)), clean_option("B", stripped(t, m, 3)),
                      clean_option("C", stripped(t, m, 4)), clean_option("D", stripped(t, m, 5))>> >>,
                 stripped(t, m, 6), <<>>, "medium", 1, <<>>, type, m.s, m.e)

\* the matches _extract_single_choice iterates over
single_choice_matches(t) ==
  LET matches == re_finditer(single_choice_pattern, t, 1)
  IN IF Len(matches) = 0 THEN re_finditer(single_choice_alt_pattern, t, 1) ELSE matches

RECURSIVE single_choice_records(_, _)
single_choice_records(t, ms) ==
  IF Len(ms) = 0 THEN <<>>
  ELSE <<choice_record("single-choice", t, Head(ms))>> \o single_choice_records(t, Tail(ms))

extract_single_choice(t) == single_choice_records(t, single_choice_matches(t))

multiple_choice_matches(t) == re_finditer(multiple_choice_pattern, t, 1)

\* the post-match filter of _extract_multiple_choice
answer_too_short(answer) == Len(answer) <= 1

RECURSIVE multiple_choice_records(_, _)
multiple_choice_records(t, ms) ==
  IF Len(ms) = 0 THEN <<>>
  ELSE (IF answer_too_short(stripped(t, Head(ms), 6)) THEN <<>>
        ELSE <<choice_record("multiple-choice", t, Head(ms))>>)
       \o multiple_choice_records(t, Tail(ms))

extract_multiple_choice(t) == multiple_choice_records(t, multiple_choice_matches(t))

with_answer_matches(t) == re_finditer(pattern_with_answer, t, 1)

\* the record of pattern 1 of _extract_fill_blank
with_answer_record(t, m) ==
  QuestionResult("fill-blank", stripped(t, m, 1), <<>>, stripped(t, m, 2), <<>>,
                 "medium", 1, <<>>, "fill-with-answer", m.s, m.e)

RECURSIVE with_answer_records(_, _)
with_answer_records(t, ms) ==
  IF Len(ms) = 0 THEN <<>>
  ELSE <<with_answer_record(t, Head(ms))>> \o with_answer_records(t, Tail(ms))

\* the scanner's record left with the grade of an unset integer
scanner_record_grade_zero(content, at) ==
  QuestionResult("fill-blank", content, <<>>, <<>>, <<>>,
                 "medium", 0, <<>>, "fill-scanner", at, at)

\* the record the scanner saves; at is the loop position of the save
scanner_record(content, at) ==
  QuestionResult("fill-blank", content, <<>>, <<>>, <<>>,
                 "medium", 1, <<>>, "fill-scanner", at, at)

judge_matches(t) == re_finditer(judge_pattern, t, 1)

\* the answer table giving Python's spelling of the two truth values
judge_answer_capitalised(answer_text) ==
  IF answer_text \in {<<DUI>>, <<ZHENG, QUE>>, <<TICK>>} THEN <<"True">>
  ELSE IF answer_text \in {<<CUO>>, <<CUO, WU>>, <<CROSS>>} THEN <<"False">>
  ELSE <<>>

\* the answer table of _extract_judge: <<>> when the token is in neither list
judge_answer(answer_text) ==
  IF answer_text \in {<<DUI>>, <<ZHENG, QUE>>, <<TICK>>} THEN <<"true">>
  ELSE IF answer_text \in {<<CUO>>, <<CUO, WU>>, <<CROSS>>} THEN <<"false">>
  ELSE <<>>

judge_record(t, m, answer) ==
  QuestionResult("judge", stripped(t, m, 1), <<>>, answer, <<>>,
                 "medium", 1, <<>>, "judge", m.s, m.e)

RECURSIVE judge_records(_, _)
judge_records(t, ms) ==
  IF Len(ms) = 0 THEN <<>>
  ELSE LET answer == judge_answer(stripped(t, Head(ms), 2))
       IN (IF Len(answer) = 0 THEN <<>> ELSE <<judge_record(t, Head(ms), answer)>>)
          \o judge_records(t, Tail(ms))

extract_judge(t) == judge_records(t, judge_matches(t))

essay_matches(t) == re_finditer(essay_pattern, t, 1)

essay_record(t, m) ==
  QuestionResult("essay", stripped(t, m, 1), <<>>, <<>>, <<stripped(t, m, 2)>>,
                 "medium", 1, <<>>, "essay", m.s, m.e)

RECURSIVE essay_records(_, _)
essay_records(t, ms) ==
  IF Len(ms) = 0 THEN <<>>
  ELSE <<essay_record(t, Head(ms))>> \o essay_records(t, Tail(ms))

extract_essay(t) == essay_records(t, essay_matches(t))

(* ----------------------------- the scanner ----------------------------- *)
\* '（' in content or '(' in content or '）' in content or ')' in content or '___' in content
has_blank_marker(content) ==
  \/ \E k \in 1..Len(content) : content[k] \in {FLP, LP, FRP, RP}
  \/ contains(content, <<US, US, US>>)

\* any(q.content == content or content in q.content for q in questions)
already_matched(qs, content) ==
  \E k \in 1..Len(qs) : qs[k].content = content \/ contains(qs[k].content, content)

\* the save without the look at the records the first pattern made
flush_without_containment_check(qs, acc, at) ==
  LET content == strip(join(acc))
  IN IF has_blank_marker(content)
       THEN Append(qs, scanner_record(content, at))
       ELSE qs

\* the save of the accumulated question, written three times in _extract_fill_blank
flush(qs, acc, at) ==
  LET content == strip(join(acc))
  IN IF has_blank_marker(content) /\ ~already_matched(qs, content)
       THEN Append(qs, scanner_record(content, at))
       ELSE qs

is_question_start(para) == re_match(question_start_pattern, para).ok
has_answer_marker(para) == contains(para, <<DA, AN>>)

(* ------------------------------ the state ------------------------------ *)
VARIABLES
  full_text,          \* argument of _extract_questions
  paragraphs,         \* argument of _extract_questions
  pc,                 \* the pass that runs next
  questions,          \* the list _extract_questions builds
  fb_questions,       \* the list _extract_fill_blank builds
  para_idx,           \* the paragraph the scanner loop reads next
  current_question,   \* <<>> (None) or <<the paragraph that opened the question>>
  current_content,    \* the accumulated paragraphs
  error,              \* "none", or the exception that left _extract_questions
  fb_returned,        \* history: what each call of _extract_fill_blank returned
  task,               \* the file behind message.file_url, NoTask without a message
  markdown_converter, \* whether DocumentConsumer.markdown_converter is set
  file_path,          \* file_path of _process_document: <<>> (None) or <<path>>
  temp_dir,           \* the files in DocumentParser.temp_dir
  flushed,            \* history: the accumulators the scanner has flushed, and where
  msg,                \* the message delivered to _handle_message
  task_id,            \* task_id of _handle_message: <<>> (None) or <<id>>
  producer,           \* DocumentConsumer.producer: absent, or how its send_sync fares
  published,          \* history: the result messages send_sync has accepted
  consume_status,     \* what _handle_message returned for this delivery
  delivery,           \* which delivery of the message this is (0: none)
  parsed,             \* history: json.loads was called on the body in this delivery
  thread_pc,          \* where each callback thread is in _process_document
  thread_file,        \* the file name at the end of each thread's file_url
  thread_read,        \* history: whose document each thread's parse opened (0: none)
  temp_files          \* whose copy is at each path of temp_dir (0: no file)

vars == <<full_text, paragraphs, pc, questions, fb_questions, para_idx,
          current_question, current_content, error, fb_returned,
          task, markdown_converter, file_path, temp_dir, flushed,
          msg, task_id, producer, published, consume_status, delivery, parsed,
          thread_pc, thread_file, thread_read, temp_files>>

inputs == <<full_text, paragraphs>>
consumer == <<task, markdown_converter, file_path, temp_dir>>
scanner == <<fb_questions, para_idx, current_question, current_content, flushed>>
handler == <<msg, task_id, producer, published, consume_status, delivery, parsed>>
threads == <<thread_pc, thread_file, thread_read, temp_files>>

\* _extract_questions called directly: no message, no file
NoTask == [scheme |-> "none"]

\* no message is being handled, by one callback at a time
Unhandled ==
  /\ msg = [tag |-> "none", body |-> [form |-> "none"]]
  /\ task_id = <<>>
  /\ producer = "absent"
  /\ published = <<>>
  /\ consume_status = "none"
  /\ delivery = 0
  /\ parsed = FALSE
  /\ thread_pc = <<>>
  /\ thread_file = <<>>
  /\ thread_read = <<>>
  /\ temp_files = <<>>

\* _extract_questions is entered with (text, paras)
Enter(text, paras) ==
  /\ full_text = text
  /\ paragraphs = paras
  /\ pc = "single-choice"
  /\ questions = <<>>
  /\ fb_questions = <<>>
  /\ para_idx = 1
  /\ current_question = <<>>
  /\ current_content = <<>>
  /\ error = "none"
  /\ fb_returned = <<>>
  /\ flushed = <<>>
  /\ task = NoTask
  /\ markdown_converter = FALSE
  /\ file_path = <<>>
  /\ temp_dir = {}
  /\ Unhandled

\* a pass whose match has a group that is None raises out of _extract_questions
Raise ==
  /\ pc' = "raised"
  /\ error' = "AttributeError"
  /\ UNCHANGED <<threads, handler, consumer, inputs, questions, scanner, fb_returned>>

\* questions.extend(self._extract_single_choice(full_text, paragraphs))
ExtractSingleChoice ==
  /\ pc = "single-choice"
  /\ IF GroupMissing(single_choice_matches(full_text), 1..6) THEN Raise
     ELSE /\ questions' = questions \o extract_single_choice(full_text)
          /\ pc' = "multiple-choice"
          /\ UNCHANGED <<threads, handler, consumer, inputs, scanner, error, fb_returned>>

\* questions.extend(self._extract_multiple_choice(full_text, paragraphs))
ExtractMultipleChoice ==
  /\ pc = "multiple-choice"
  /\ IF GroupMissing(multiple_choice_matches(full_text), 1..6) THEN Raise
     ELSE /\ questions' = questions \o extract_multiple_choice(full_text)
          /\ pc' = "fill-blank"
          /\ UNCHANGED <<threads, handler, consumer, inputs, scanner, error, fb_returned>>

\* pattern 1 with its records held back until the loop is over
FillBlankRecordsLater ==
  /\ pc = "fill-blank"
  /\ IF GroupMissing(with_answer_matches(full_text), 1..2) THEN Raise
     ELSE /\ fb_questions' = <<>>
          /\ flushed' = <<>>
          /\ para_idx' = 1
          /\ current_question' = <<>>
          /\ current_content' = <<>>
          /\ pc' = "scan"
          /\ UNCHANGED <<threads, handler, consumer, inputs, questions, error, fb_returned>>

\* the pass keeping the open question and its lines where the last call left them
FillBlankKeepingAccumulator ==
  /\ pc = "fill-blank"
  /\ fb_questions' = with_answer_records(full_text, with_answer_matches(full_text))
  /\ flushed' = <<>>
  /\ para_idx' = 1
  /\ pc' = "scan"
  /\ UNCHANGED <<threads, handler, consumer, inputs, questions, error, fb_returned, current_question, current_content>>

\* _extract_fill_blank up to the scanner loop: pattern 1
FillBlankWithAnswer ==
  /\ pc = "fill-blank"
  /\ IF GroupMissing(with_answer_matches(full_text), 1..2) THEN Raise
     ELSE /\ fb_questions' = with_answer_records(full_text, with_answer_matches(full_text))
          /\ flushed' = <<>>
          /\ para_idx' = 1
          /\ current_question' = <<>>
          /\ current_content' = <<>>
          /\ pc' = "scan"
          /\ UNCHANGED <<threads, handler, consumer, inputs, questions, error, fb_returned>>

\* the loop body with the answer-marker test made first
ScanParagraphAnswerFirst ==
  /\ pc = "scan"
  /\ para_idx <= Len(paragraphs)
  /\ para_idx' = para_idx + 1
  /\ LET para == strip(paragraphs[para_idx])
     IN IF Len(para) = 0
          THEN UNCHANGED <<fb_questions, flushed, current_question, current_content>>
        ELSE IF Len(current_question) > 0 /\ has_answer_marker(para)
          THEN /\ fb_questions' = flush(fb_questions, current_content, para_idx)
               /\ flushed' = Append(flushed, [at |-> para_idx, content |-> current_content])
               /\ current_question' = <<>>
               /\ current_content' = <<>>
        ELSE IF is_question_start(para)
          THEN /\ fb_questions' =
                    IF Len(current_question) > 0 /\ Len(current_content) > 0
                      THEN flush(fb_questions, current_content, para_idx)
                      ELSE fb_questions
               /\ flushed' =
                    IF Len(current_question) > 0 /\ Len(current_content) > 0
                      THEN Append(flushed, [at |-> para_idx, content |-> current_content])
                      ELSE flushed
               /\ current_question' = <<para>>
               /\ current_content' = <<para>>
        ELSE IF Len(current_question) > 0
          THEN /\ current_content' = Append(current_content, para)
               /\ UNCHANGED <<fb_questions, flushed, current_question>>
        ELSE UNCHANGED <<fb_questions, flushed, current_question, current_content>>
  /\ UNCHANGED <<threads, handler, consumer, inputs, pc, questions, error, fb_returned>>

\* the loop body with the answer line taken into the accumulator
ScanParagraphKeepingAnswerLine ==
  /\ pc = "scan"
  /\ para_idx <= Len(paragraphs)
  /\ para_idx' = para_idx + 1
  /\ LET para == strip(paragraphs[para_idx])
     IN IF Len(para) = 0
          THEN UNCHANGED <<fb_questions, flushed, current_question, current_content>>
        ELSE IF is_question_start(para)
          THEN /\ fb_questions' =
                    IF Len(current_question) > 0 /\ Len(current_content) > 0
                      THEN flush(fb_questions, current_content, para_idx)
                      ELSE fb_questions
               /\ flushed' =
                    IF Len(current_question) > 0 /\ Len(current_content) > 0
                      THEN Append(flushed, [at |-> para_idx, content |-> current_content])
                      ELSE flushed
               /\ current_question' = <<para>>
               /\ current_content' = <<para>>
        ELSE IF Len(current_question) > 0
          THEN IF has_answer_marker(para)
                 THEN /\ fb_questions' = flush(fb_questions, Append(current_content, para), para_idx)
                      /\ flushed' = Append(flushed, [at |-> para_idx, content |-> Append(current_content, para)])
                      /\ current_question' = <<>>
                      /\ current_content' = <<>>
                 ELSE /\ current_content' = Append(current_content, para)
                      /\ UNCHANGED <<fb_questions, flushed, current_question>>
        ELSE UNCHANGED <<fb_questions, flushed, current_question, current_content>>
  /\ UNCHANGED <<threads, handler, consumer, inputs, pc, questions, error, fb_returned>>

\* the loop body opening a question at any paragraph
ScanParagraphOpeningAnywhere ==
  /\ pc = "scan"
  /\ para_idx <= Len(paragraphs)
  /\ para_idx' = para_idx + 1
  /\ LET para == strip(paragraphs[para_idx])
     IN IF Len(para) = 0
          THEN UNCHANGED <<fb_questions, flushed, current_question, current_content>>
        ELSE IF is_question_start(para) \/ Len(current_question) = 0
          THEN /\ fb_questions' =
                    IF Len(current_question) > 0 /\ Len(current_content) > 0
                      THEN flush(fb_questions, current_content, para_idx)
                      ELSE fb_questions
               /\ flushed' =
                    IF Len(current_question) > 0 /\ Len(current_content) > 0
                      THEN Append(flushed, [at |-> para_idx, content |-> current_content])
                      ELSE flushed
               /\ current_question' = <<para>>
               /\ current_content' = <<para>>
        ELSE IF has_answer_marker(para)
          THEN /\ fb_questions' = flush(fb_questions, current_content, para_idx)
               /\ flushed' = Append(flushed, [at |-> para_idx, content |-> current_content])
               /\ current_question' = <<>>
               /\ current_content' = <<>>
        ELSE /\ current_content' = Append(current_content, para)
             /\ UNCHANGED <<fb_questions, flushed, current_question>>
  /\ UNCHANGED <<threads, handler, consumer, inputs, pc, questions, error, fb_returned>>

\* the loop body keeping the question open after an answer line
ScanParagraphLeavingOpen ==
  /\ pc = "scan"
  /\ para_idx <= Len(paragraphs)
  /\ para_idx' = para_idx + 1
  /\ LET para == strip(paragraphs[para_idx])
     IN IF Len(para) = 0
          THEN UNCHANGED <<fb_questions, flushed, current_question, current_content>>
        ELSE IF is_question_start(para)
          THEN /\ fb_questions' =
                    IF Len(current_question) > 0 /\ Len(current_content) > 0
                      THEN flush(fb_questions, current_content, para_idx)
                      ELSE fb_questions
               /\ flushed' =
                    IF Len(current_question) > 0 /\ Len(current_content) > 0
                      THEN Append(flushed, [at |-> para_idx, content |-> current_content])
                      ELSE flushed
               /\ current_question' = <<para>>
               /\ current_content' = <<para>>
        ELSE IF Len(current_question) > 0
          THEN IF is_question_start(para) \/ has_answer_marker(para)
                 THEN /\ fb_questions' =
                           IF Len(current_content) > 0
                             THEN flush(fb_questions, current_content, para_idx)
                             ELSE fb_questions
                      /\ flushed' =
                           IF Len(current_content) > 0
                             THEN Append(flushed, [at |-> para_idx, content |-> current_content])
                             ELSE flushed
                      /\ IF is_question_start(para)
                           THEN /\ current_question' = <<para>>
                                /\ current_content' = <<para>>
                           ELSE UNCHANGED <<current_question, current_content>>
                 ELSE /\ current_content' = Append(current_content, para)
                      /\ UNCHANGED <<fb_questions, flushed, current_question>>
        ELSE UNCHANGED <<fb_questions, flushed, current_question, current_content>>
  /\ UNCHANGED <<threads, handler, consumer, inputs, pc, questions, error, fb_returned>>

\* one iteration of "for para in paragraphs"
ScanParagraph ==
  /\ pc = "scan"
  /\ para_idx <= Len(paragraphs)
  /\ para_idx' = para_idx + 1
  /\ LET para == strip(paragraphs[para_idx])
     IN IF Len(para) = 0
          THEN UNCHANGED <<fb_questions, flushed, current_question, current_content>>
        ELSE IF is_question_start(para)
          THEN /\ fb_questions' =
                    IF Len(current_question) > 0 /\ Len(current_content) > 0
                      THEN flush(fb_questions, current_content, para_idx)
                      ELSE fb_questions
               /\ flushed' =
                    IF Len(current_question) > 0 /\ Len(current_content) > 0
                      THEN Append(flushed, [at |-> para_idx, content |-> current_content])
                      ELSE flushed
               /\ current_question' = <<para>>
               /\ current_content' = <<para>>
        ELSE IF Len(current_question) > 0
          THEN IF is_question_start(para) \/ has_answer_marker(para)
                 THEN /\ fb_questions' =
                           IF Len(current_content) > 0
                             THEN flush(fb_questions, current_content, para_idx)
                             ELSE fb_questions
                      /\ flushed' =
                           IF Len(current_content) > 0
                             THEN Append(flushed, [at |-> para_idx, content |-> current_content])
                             ELSE flushed
                      /\ IF is_question_start(para)
                           THEN /\ current_question' = <<para>>
                                /\ current_content' = <<para>>
                           ELSE /\ current_question' = <<>>
                                /\ current_content' = <<>>
                 ELSE /\ current_content' = Append(current_content, para)
                      /\ UNCHANGED <<fb_questions, flushed, current_question>>
        ELSE UNCHANGED <<fb_questions, flushed, current_question, current_content>>
  /\ UNCHANGED <<threads, handler, consumer, inputs, pc, questions, error, fb_returned>>

\* the return without the save of the last question
FinalFlushNothing ==
  /\ pc = "scan"
  /\ para_idx > Len(paragraphs)
  /\ fb_questions' = fb_questions
  /\ flushed' = flushed
  /\ questions' = questions \o fb_questions'
  /\ fb_returned' = Append(fb_returned, fb_questions')
  /\ pc' = "judge"
  /\ UNCHANGED <<threads, handler, consumer, inputs, para_idx, current_question, current_content, error>>

\* after the loop: the last question, then return; the caller extends its list
FinalFlush ==
  /\ pc = "scan"
  /\ para_idx > Len(paragraphs)
  /\ fb_questions' =
       IF Len(current_question) > 0 /\ Len(current_content) > 0
         THEN flush(fb_questions, current_content, para_idx)
         ELSE fb_questions
  /\ flushed' =
       IF Len(current_question) > 0 /\ Len(current_content) > 0
         THEN Append(flushed, [at |-> para_idx, content |-> current_content])
         ELSE flushed
  /\ questions' = questions \o fb_questions'
  /\ fb_returned' = Append(fb_returned, fb_questions')
  /\ pc' = "judge"
  /\ UNCHANGED <<threads, handler, consumer, inputs, para_idx, current_question, current_content, error>>

\* the judge pass putting its records in front of the list
ExtractJudgeInFront ==
  /\ pc = "judge"
  /\ questions' = extract_judge(full_text) \o questions
  /\ pc' = "essay"
  /\ UNCHANGED <<threads, handler, consumer, inputs, scanner, error, fb_returned>>

\* questions.extend(self._extract_judge(full_text, paragraphs))
ExtractJudge ==
  /\ pc = "judge"
  /\ IF GroupMissing(judge_matches(full_text), 1..2) THEN Raise
     ELSE /\ questions' = questions \o extract_judge(full_text)
          /\ pc' = "essay"
          /\ UNCHANGED <<threads, handler, consumer, inputs, scanner, error, fb_returned>>

\* questions.extend(self._extract_essay(full_text, paragraphs)); return questions
ExtractEssay ==
  /\ pc = "essay"
  /\ IF GroupMissing(essay_matches(full_text), 1..2) THEN Raise
     ELSE /\ questions' = questions \o extract_essay(full_text)
          /\ pc' = "done"
          /\ UNCHANGED <<threads, handler, consumer, inputs, scanner, error, fb_returned>>

Next ==
  \/ ExtractSingleChoice
  \/ ExtractMultipleChoice
  \/ FillBlankWithAnswer
  \/ ScanParagraph
  \/ FinalFlush
  \/ ExtractJudge
  \/ ExtractEssay

\* a parser object serves one document after another
MaxCalls == 2

\* parse_document calls _extract_questions again, for the same text and
\* paragraphs; what the locals of the last call held is still in memory
ExtractAgain ==
  /\ pc = "done"
  /\ Len(fb_returned) < MaxCalls
  /\ pc' = "single-choice"
  /\ questions' = <<>>
  /\ UNCHANGED <<threads, handler, consumer, inputs, scanner, error, fb_returned>>

NextTwice == Next \/ ExtractAgain

(* ------------------------- the markdown parser ------------------------- *)
\* markdown_parser.py:53
md_single_choice_pattern ==
  <<Open(1)>> \o NumberedContent \o <<Close(1)>> \o Spaces
    \o OptionGroup(2, "A", Sep) \o Spaces
    \o OptionGroup(3, "B", Sep) \o Spaces
    \o OptionGroup(4, "C", Sep) \o Spaces
    \o OptionGroup(5, "D", Sep)
    \o AnswerMark \o <<Open(6), One(ABCD), Close(6)>>

\* markdown_parser.py:88
md_multiple_choice_pattern ==
  <<Open(1)>> \o NumberedContent \o <<Close(1)>> \o Spaces
    \o OptionGroup(2, "A", Sep) \o Spaces
    \o OptionGroup(3, "B", Sep) \o Spaces
    \o OptionGroup(4, "C", Sep) \o Spaces
    \o OptionGroup(5, "D", Sep)
    \o AnswerMark \o <<Open(6), Greedy(ABCD, 2, 0), Close(6)>>

RECURSIVE md_choice_records(_, _, _)
\* one record for each match, of either choice pass
md_choice_records(type, t, ms) ==
  IF Len(ms) = 0 THEN <<>>
  ELSE <<choice_record(type, t, Head(ms))>> \o md_choice_records(type, t, Tail(ms))

\* MarkdownParser.parse_markdown_to_questions: the five passes, in order
parse_markdown_to_questions(t) ==
  md_choice_records("single-choice", t, re_finditer(md_single_choice_pattern, t, 1))
    \o md_choice_records("multiple-choice", t, re_finditer(md_multiple_choice_pattern, t, 1))
    \o with_answer_records(t, with_answer_matches(t))
    \o extract_judge(t)
    \o extract_essay(t)

(* ----------------------------- the consumer ---------------------------- *)
\* settings.supported_extensions
supported_extensions ==
  {".docx", ".doc", ".pdf", ".ppt", ".pptx", ".xls", ".xlsx",
   ".jpg", ".jpeg", ".png", ".gif", ".bmp",
   ".txt", ".html", ".csv", ".json", ".xml", ".epub"}

\* the list inside MarkdownConverter.is_supported_format
converter_extensions ==
  {".pdf", ".doc", ".docx", ".ppt", ".pptx", ".xls", ".xlsx",
   ".jpg", ".jpeg", ".png", ".gif", ".bmp",
   ".txt", ".html", ".csv", ".json", ".xml", ".epub"}

\* the name download_file gives the local copy: the name in the URL, with
\* ".docx" appended unless it ends in a supported extension
file_name(t) ==
  IF t.ext \in supported_extensions THEN <<t.name, t.ext>> ELSE <<t.name, t.ext, ".docx">>

\* os.path.splitext(path)[1]
splitext(path) == path[Len(path)]

\* f.read(2) on the file of task t
first_bytes(t) == IF t.size = "empty" THEN "" ELSE t.signature

\* the size tests of download_file, made before anything is written; a
\* streamed response is tested only when it has a content-length header
exceeds_maximum(t) ==
  t.size = "over" /\ (t.scheme = "http-stream" => t.content_length)

\* download_file: whether the local copy was written, and what was raised
download_file(t) ==
  IF ~t.reachable
  THEN [written |-> FALSE,
        raised |-> IF t.scheme = "file" THEN "FileNotFoundError" ELSE "HTTPStatusError"]
  ELSE IF exceeds_maximum(t) THEN [written |-> FALSE, raised |-> "ValueError"]
  ELSE IF t.size = "empty" \/ first_bytes(t) # "PK" THEN [written |-> TRUE, raised |-> "ValueError"]
  ELSE [written |-> TRUE, raised |-> "none"]

\* parser.cleanup(file_path) of the finally clause
cleanup(dir, path) == dir \ {path}

\* an exception leaves _process_document through its finally clause
RaiseOut(exception) ==
  /\ pc' = "failed"
  /\ error' = exception
  /\ temp_dir' = IF Len(file_path) > 0 THEN cleanup(temp_dir, file_path[1]) ELSE temp_dir
  /\ UNCHANGED <<threads, handler, inputs, questions, scanner, fb_returned, task, markdown_converter, file_path>>

\* file_path = self.parser.download_file(message.file_url)
DownloadFile ==
  /\ pc = "download"
  /\ LET out == download_file(task)
     IN /\ temp_dir' = IF out.written THEN temp_dir \cup {file_name(task)} ELSE temp_dir
        /\ IF out.raised = "none"
           THEN /\ file_path' = <<file_name(task)>>
                /\ pc' = "dispatch"
                /\ error' = error
           ELSE /\ file_path' = <<>>
                /\ pc' = "failed"
                /\ error' = out.raised
  /\ UNCHANGED <<threads, handler, inputs, questions, scanner, fb_returned, task, markdown_converter>>

\* the Word branch: parse_document opens the file with python-docx, which
\* reads Word packages alone, and enters _extract_questions
ParseDocument ==
  /\ pc = "dispatch"
  /\ splitext(file_path[1]) \in {".doc", ".docx"}
  /\ IF first_bytes(task) # "PK" THEN RaiseOut("ValueError")
     ELSE IF task.kind # "word" THEN RaiseOut("PackageNotFoundError")
     ELSE /\ pc' = "single-choice"
          /\ UNCHANGED <<threads, handler, inputs, questions, scanner, error, fb_returned, consumer>>

\* the other formats: MarkItDown converts the file, or fails on it
ConvertToMarkdown ==
  /\ pc = "dispatch"
  /\ splitext(file_path[1]) \notin {".doc", ".docx"}
  /\ IF ~markdown_converter THEN RaiseOut("RuntimeError")
     ELSE IF splitext(file_path[1]) \notin converter_extensions THEN RaiseOut("ValueError")
     ELSE \/ RaiseOut("ConversionError")
          \/ /\ pc' = "markdown"
             /\ UNCHANGED <<threads, handler, inputs, questions, scanner, error, fb_returned, consumer>>

\* questions = self.markdown_parser.parse_markdown_to_questions(...), then
\* return through the finally clause
ParseMarkdown ==
  /\ pc = "markdown"
  /\ questions' = parse_markdown_to_questions(full_text)
  /\ pc' = "returned"
  /\ temp_dir' = cleanup(temp_dir, file_path[1])
  /\ UNCHANGED <<threads, handler, inputs, scanner, error, fb_returned, task, markdown_converter, file_path>>

\* parse_document has returned or raised: the finally clause
Return ==
  /\ pc \in {"done", "raised"}
  /\ Len(file_path) > 0
  /\ pc' = IF pc = "done" THEN "returned" ELSE "failed"
  /\ temp_dir' = cleanup(temp_dir, file_path[1])
  /\ UNCHANGED <<threads, handler, inputs, questions, scanner, error, fb_returned, task, markdown_converter, file_path>>

NextProcess ==
  \/ DownloadFile
  \/ ParseDocument
  \/ ConvertToMarkdown
  \/ ParseMarkdown
  \/ Return
  \/ Next

(* ------------------------- the message handler ------------------------- *)
\* settings.rocketmq_consume_tag
rocketmq_consume_tag == "document.convert"

\* the outcomes of self.producer.send_sync(msg): TRUE when the broker takes
\* the message, FALSE when the call raises; _send_result raises RuntimeError
\* itself when there is no producer
send_sync ==
  CASE producer = "up" -> {TRUE}
    [] producer = "flaky" -> {TRUE, FALSE}
    [] OTHER -> {FALSE}

\* DocumentConvertResultMessage(task_id, status), as the broker holds it
result_message(id, status) == [task_id |-> id, status |-> status, delivery |-> delivery]

\* the except clause of _handle_message: the "failed" result is sent when
\* task_id is set and not empty, a failure to send it is logged only
HandleException ==
  /\ \E sent \in send_sync :
       published' = IF Len(task_id') > 0 /\ task_id'[1] # "" /\ sent
                    THEN Append(published, result_message(task_id'[1], "failed"))
                    ELSE published
  /\ consume_status' = "RECONSUME_LATER"
  /\ pc' = "handled"

\* the callback that parses every body before it looks at the tag
HandleMessageParsingFirst ==
  /\ pc = "receive"
  /\ IF msg.body.form = "valid" /\ msg.tag = rocketmq_consume_tag
     THEN /\ parsed' = TRUE
          /\ task_id' = <<msg.body.task_id>>
          /\ task' = msg.body.file_url
          /\ pc' = "download"
          /\ UNCHANGED <<published, consume_status>>
     ELSE IF msg.body.form = "valid"
     THEN /\ parsed' = TRUE
          /\ consume_status' = "CONSUME_SUCCESS"
          /\ pc' = "handled"
          /\ UNCHANGED <<task_id, task, published>>
     ELSE /\ parsed' = (msg.body.form # "undecodable")
          /\ UNCHANGED <<task_id, task>>
          /\ HandleException
  /\ UNCHANGED <<threads, inputs, questions, scanner, error, fb_returned, markdown_converter,
                 file_path, temp_dir, msg, producer, delivery>>

\* _handle_message up to the call of _process_document: the tag filter, then
\* the body is decoded, loaded as JSON and validated as a DocumentConvertMessage
HandleMessage ==
  /\ pc = "receive"
  /\ IF msg.tag # rocketmq_consume_tag
     THEN /\ consume_status' = "CONSUME_SUCCESS"
          /\ pc' = "handled"
          /\ UNCHANGED <<parsed, task_id, task, published>>
     ELSE IF msg.body.form = "valid"
     THEN /\ parsed' = TRUE
          /\ task_id' = <<msg.body.task_id>>
          /\ task' = msg.body.file_url
          /\ pc' = "download"
          /\ UNCHANGED <<published, consume_status>>
     ELSE /\ parsed' = (msg.body.form # "undecodable")
          /\ UNCHANGED <<task_id, task>>
          /\ HandleException
  /\ UNCHANGED <<threads, inputs, questions, scanner, error, fb_returned, markdown_converter,
                 file_path, temp_dir, msg, producer, delivery>>

\* the callback that acknowledges the message whether or not the result was sent
SendCompletedAcknowledging ==
  /\ pc = "returned"
  /\ delivery > 0
  /\ \E sent \in send_sync :
       /\ published' = IF sent THEN Append(published, result_message(task_id[1], "completed"))
                       ELSE published
       /\ consume_status' = "CONSUME_SUCCESS"
       /\ pc' = "handled"
  /\ UNCHANGED <<threads, inputs, consumer, questions, scanner, error, fb_returned,
                 msg, task_id, producer, delivery, parsed>>

\* _process_document has returned: the "completed" result is sent, and a
\* failure to send it is handled by the except clause
SendCompleted ==
  /\ pc = "returned"
  /\ delivery > 0
  /\ \/ /\ TRUE \in send_sync
        /\ published' = Append(published, result_message(task_id[1], "completed"))
        /\ consume_status' = "CONSUME_SUCCESS"
        /\ pc' = "handled"
        /\ task_id' = task_id
     \/ /\ FALSE \in send_sync
        /\ task_id' = task_id
        /\ HandleException
  /\ UNCHANGED <<threads, inputs, consumer, questions, scanner, error, fb_returned,
                 msg, producer, delivery, parsed>>

\* _process_document has raised: the except clause
SendFailed ==
  /\ pc = "failed"
  /\ delivery > 0
  /\ task_id' = task_id
  /\ HandleException
  /\ UNCHANGED <<threads, inputs, consumer, questions, scanner, error, fb_returned,
                 msg, producer, delivery, parsed>>

\* the broker delivers a message at most MaxDeliveries times
MaxDeliveries == 2

\* RECONSUME_LATER: the broker delivers the same message again, to a
\* consumer whose temp directory is as the last delivery left it
Redeliver ==
  /\ pc = "handled"
  /\ consume_status = "RECONSUME_LATER"
  /\ delivery < MaxDeliveries
  /\ delivery' = delivery + 1
  /\ pc' = "receive"
  /\ consume_status' = "none"
  /\ task_id' = <<>>
  /\ task' = NoTask
  /\ parsed' = FALSE
  /\ questions' = <<>>
  /\ fb_questions' = <<>>
  /\ para_idx' = 1
  /\ current_question' = <<>>
  /\ current_content' = <<>>
  /\ flushed' = <<>>
  /\ error' = "none"
  /\ fb_returned' = <<>>
  /\ file_path' = <<>>
  /\ UNCHANGED <<threads, inputs, markdown_converter, temp_dir, msg, producer, published>>

NextHandle ==
  \/ HandleMessage
  \/ SendCompleted
  \/ SendFailed
  \/ Redeliver
  \/ NextProcess

(* ------------------------ two callback threads ------------------------- *)
\* two conversion tasks are handled at the same time, each by a callback thread
Threads == {1, 2}

\* download_file up to the write: local_path is temp_dir / the name at the
\* end of the URL, and the copy is written there over whatever is there
WriteLocalCopy ==
  \E i \in Threads :
    /\ thread_pc[i] = "download"
    /\ temp_files' = [temp_files EXCEPT ![thread_file[i]] = i]
    /\ thread_pc' = [thread_pc EXCEPT ![i] = "validate"]
    /\ UNCHANGED <<inputs, consumer, handler, pc, questions, scanner, error, fb_returned,
                 thread_file, thread_read>>

\* the final validation of download_file reads the file at local_path again;
\* when it raises, _process_document has no file_path to clean up
ValidateLocalCopy ==
  \E i \in Threads :
    /\ thread_pc[i] = "validate"
    /\ thread_pc' = [thread_pc EXCEPT ![i] = IF temp_files[thread_file[i]] = 0 THEN "failed" ELSE "parse"]
    /\ UNCHANGED <<inputs, consumer, handler, pc, questions, scanner, error, fb_returned,
                 thread_file, thread_read, temp_files>>

\* parse_document tests that the file exists, is not empty and begins with PK
CheckBeforeParsing ==
  \E i \in Threads :
    /\ thread_pc[i] = "parse"
    /\ thread_pc' = [thread_pc EXCEPT ![i] = IF temp_files[thread_file[i]] = 0 THEN "cleanup" ELSE "open"]
    /\ UNCHANGED <<inputs, consumer, handler, pc, questions, scanner, error, fb_returned,
                 thread_file, thread_read, temp_files>>

\* Document(file_path) reads what is at the path now, or raises
OpenDocument ==
  \E i \in Threads :
    /\ thread_pc[i] = "open"
    /\ thread_read' = [thread_read EXCEPT ![i] = temp_files[thread_file[i]]]
    /\ thread_pc' = [thread_pc EXCEPT ![i] = "cleanup"]
    /\ UNCHANGED <<inputs, consumer, handler, pc, questions, scanner, error, fb_returned,
                 thread_file, temp_files>>

\* the finally clause: parser.cleanup(file_path) removes the file at the path
Cleanup ==
  \E i \in Threads :
    /\ thread_pc[i] = "cleanup"
    /\ temp_files' = [temp_files EXCEPT ![thread_file[i]] = 0]
    /\ thread_pc' = [thread_pc EXCEPT ![i] = "done"]
    /\ UNCHANGED <<inputs, consumer, handler, pc, questions, scanner, error, fb_returned,
                 thread_file, thread_read>>

NextThreads ==
  \/ WriteLocalCopy
  \/ ValidateLocalCopy
  \/ CheckBeforeParsing
  \/ OpenDocument
  \/ Cleanup

(* ------------------------------ the inputs ----------------------------- *)
\* a document holds at most MaxParas paragraphs
MaxParas == 2

\* <n><sep><content> A<o><a> B<o><b> C<o><c> D<o><d> 答案<colon><answer>
ChoiceParagraph(n, sep, content, o, a, b, c, d, colon, answer) ==
  n \o <<sep>> \o content \o <<SP, "A", o>> \o a \o <<SP, "B", o>> \o b
    \o <<SP, "C", o>> \o c \o <<SP, "D", o>> \o d \o <<SP, DA, AN, colon>> \o answer
\* 答案<colon><answer>
AnswerLine(colon, answer) == <<DA, AN, colon>> \o answer
\* (___)
Blank == <<LP, US, US, US, RP>>

Paragraphs ==
  { ChoiceParagraph(<<"1">>, DOT, <<"q">>, DOT, <<"a">>, <<"b">>, <<"c">>, <<"d">>, FCOLON, <<"B">>),
    ChoiceParagraph(<<"2">>, DUN, <<"q">>, DUN, <<"a">>, <<"b">>, <<"c">>, <<"d">>, COLON, <<"A", "C">>),
    ChoiceParagraph(<<"1">>, DOT, <<"q">>, SP, <<"a">>, <<"b">>, <<"c">>, <<"d">>, FCOLON, <<"C">>),
    <<"1", DOT, "q", SP>> \o Blank \o <<SP>> \o AnswerLine(FCOLON, <<"x">>),
    <<"2", DOT, "q", SP>> \o Blank,
    AnswerLine(FCOLON, <<"x">>),
    <<"1", DOT, "q", SP>> \o AnswerLine(FCOLON, <<DUI>>),
    <<"2", DOT, "q", SP>> \o AnswerLine(FCOLON, <<ZHENG, QUE>>),
    <<"2", DOT, "q", SP, JIE, XI, FCOLON, "e">>,
    <<"q">> }

RECURSIVE SeqsUpTo(_, _)
\* the sequences over S of length at most n
SeqsUpTo(S, n) ==
  IF n = 0 THEN {<<>>}
  ELSE LET shorter == SeqsUpTo(S, n - 1)
       IN shorter \cup {Append(ps, p) : ps \in shorter, p \in S}

\* parse_document: full_text = "\n".join(paragraphs)
FromDocument(pool) == \E paras \in SeqsUpTo(pool, MaxParas) : Enter(join(paras), paras)

\* a text of white space alone, with no paragraph
BlankTexts == {<<SP>>, <<NL>>, <<SP, NL, SP>>}
FromBlankText == \E text \in BlankTexts : Enter(text, <<>>)

Init == FromDocument(Paragraphs) \/ FromBlankText

Spec == Init /\ [][Next]_vars

\* the paragraphs the scanner tells apart: a question with a blank, answered in
\* the paragraph or not, an answer line, a numbered line with the answer
\* marker, a line that is neither
ScannerParagraphs ==
  { <<"1", DOT, "q", SP>> \o Blank \o <<SP>> \o AnswerLine(FCOLON, <<"x">>),
    <<"2", DOT, "q", SP>> \o Blank,
    AnswerLine(FCOLON, <<"x">>),
    <<"1", DOT, "q", SP>> \o AnswerLine(FCOLON, <<DUI>>),
    <<"q">> }

SpecTwice == FromDocument(ScannerParagraphs) /\ [][NextTwice]_vars

\* the scanner's documents hold at most MaxScanParas paragraphs
MaxScanParas == 3

InitScan == \E paras \in SeqsUpTo(ScannerParagraphs, MaxScanParas) : Enter(join(paras), paras)

SpecScan == InitScan /\ [][Next]_vars

\* the control of the scanner loop: the for statement takes the next
\* paragraph, or is exhausted and the function returns
LoopStep ==
  /\ pc = "scan"
  /\ \/ para_idx <= Len(paragraphs) /\ para_idx' = para_idx + 1 /\ pc' = pc
     \/ para_idx > Len(paragraphs) /\ para_idx' = para_idx /\ pc' = "judge"

\* the loop runs on: while it can take a step it takes one
SpecScanFair == InitScan /\ [][Next]_vars /\ WF_<<pc, para_idx>>(LoopStep)

(* -------------------------- the files of tasks ------------------------- *)
\* the formats a task's file comes in: the extension of its name and the two
\* bytes the format begins with.  A Word, slide or spreadsheet file of the
\* XML generation is a ZIP package (PK); the last two are a file with an
\* extension outside settings.supported_extensions and a Word file with one
FileFormats ==
  { [kind |-> "word", ext |-> ".docx", signature |-> "PK"],
    [kind |-> "pdf", ext |-> ".pdf", signature |-> "%P"],
    [kind |-> "slides", ext |-> ".pptx", signature |-> "PK"],
    [kind |-> "spreadsheet", ext |-> ".xlsx", signature |-> "PK"],
    [kind |-> "image", ext |-> ".png", signature |-> "89P"],
    [kind |-> "text", ext |-> ".txt", signature |-> "1."],
    [kind |-> "text", ext |-> ".md", signature |-> "1."],
    [kind |-> "word", ext |-> ".bin", signature |-> "PK"] }

\* the branches of download_file (a path without a scheme is handled as a
\* file:// URL is), the size of the file against settings.max_file_size,
\* whether the source has the file, whether a streamed response states its length
Tasks ==
  { [scheme |-> scheme, name |-> "exam", kind |-> f.kind, ext |-> f.ext,
     signature |-> f.signature, size |-> size, reachable |-> reachable,
     content_length |-> content_length] :
      scheme \in {"http-json", "http-stream", "file"}, f \in FileFormats,
      size \in {"empty", "within", "over"}, reachable \in BOOLEAN,
      content_length \in BOOLEAN }

\* what the files hold
TaskDocuments ==
  { <<ChoiceParagraph(<<"1">>, DOT, <<"q">>, DOT, <<"a">>, <<"b">>, <<"c">>, <<"d">>, FCOLON, <<"B">>)>>,
    << <<"2", DOT, "q", SP>> \o Blank, AnswerLine(FCOLON, <<"x">>) >> }

\* _process_document is entered with a message for task t
Process(t, converter, paras) ==
  /\ full_text = join(paras)
  /\ paragraphs = paras
  /\ pc = "download"
  /\ questions = <<>>
  /\ fb_questions = <<>>
  /\ para_idx = 1
  /\ current_question = <<>>
  /\ current_content = <<>>
  /\ error = "none"
  /\ fb_returned = <<>>
  /\ flushed = <<>>
  /\ task = t
  /\ markdown_converter = converter
  /\ file_path = <<>>
  /\ temp_dir = {}
  /\ Unhandled

InitProcess ==
  \E t \in Tasks, converter \in BOOLEAN, paras \in TaskDocuments : Process(t, converter, paras)

SpecProcess == InitProcess /\ [][NextProcess]_vars

(* ------------------------ the messages delivered ----------------------- *)
\* the bodies of messages: bytes that are not UTF-8, text that is not JSON,
\* JSON that lacks a required field, and valid messages for files of every
\* format and each size on the local file system
Bodies ==
  { [form |-> form] : form \in {"undecodable", "not-json", "invalid"} }
    \cup { [form |-> "valid", task_id |-> id, file_url |-> t] :
             id \in {"", "t1"},
             t \in { t \in Tasks : t.scheme = "file" /\ t.content_length } }

\* a message has no tag, another tag, or the consume tag
Messages ==
  { [tag |-> tag, body |-> body] :
      tag \in {"", "document.convert.result", rocketmq_consume_tag}, body \in Bodies }

\* _handle_message is called with message m, for the first time
InitHandle ==
  \E m \in Messages, sender \in {"absent", "up", "down", "flaky"},
     converter \in BOOLEAN, paras \in TaskDocuments :
    /\ full_text = join(paras)
    /\ paragraphs = paras
    /\ pc = "receive"
    /\ questions = <<>>
    /\ fb_questions = <<>>
    /\ para_idx = 1
    /\ current_question = <<>>
    /\ current_content = <<>>
    /\ error = "none"
    /\ fb_returned = <<>>
    /\ flushed = <<>>
    /\ task = NoTask
    /\ markdown_converter = converter
    /\ file_path = <<>>
    /\ temp_dir = {}
    /\ msg = m
    /\ task_id = <<>>
    /\ producer = sender
    /\ published = <<>>
    /\ consume_status = "none"
    /\ delivery = 1
    /\ parsed = FALSE
    /\ thread_pc = <<>>
    /\ thread_file = <<>>
    /\ thread_read = <<>>
    /\ temp_files = <<>>

SpecHandle == InitHandle /\ [][NextHandle]_vars

(* ------------------------- the concurrent tasks ------------------------ *)
\* the file names at the end of the tasks' URLs
FileNames == {"exam.docx", "quiz.docx", "test.docx"}

\* each thread is about to call download_file for a Word file of its own task
InitThreads ==
  /\ full_text = <<>>
  /\ paragraphs = <<>>
  /\ pc = "threads"
  /\ questions = <<>>
  /\ fb_questions = <<>>
  /\ para_idx = 1
  /\ current_question = <<>>
  /\ current_content = <<>>
  /\ error = "none"
  /\ fb_returned = <<>>
  /\ flushed = <<>>
  /\ task = NoTask
  /\ markdown_converter = FALSE
  /\ file_path = <<>>
  /\ temp_dir = {}
  /\ msg = [tag |-> "none", body |-> [form |-> "none"]]
  /\ task_id = <<>>
  /\ producer = "absent"
  /\ published = <<>>
  /\ consume_status = "none"
  /\ delivery = 0
  /\ parsed = FALSE
  /\ thread_pc = [i \in Threads |-> "download"]
  /\ thread_file \in [Threads -> FileNames]
  /\ thread_read = [i \in Threads |-> 0]
  /\ temp_files = [n \in FileNames |-> 0]

SpecThreads == InitThreads /\ [][NextThreads]_vars

(* --------------------- documents of a single form ---------------------- *)
\* a question number has at most MaxDigits digits
MaxDigits == 2
\* a content, an option or a free answer has at most MaxWords words
MaxWords == 2

RECURSIVE Words(_, _)
\* k times the word w, a space between
Words(w, k) == IF k <= 1 THEN <<w>> ELSE <<w, SP>> \o Words(w, k - 1)

Numbers == SeqsUpTo(Digit, MaxDigits) \ {<<>>}
Contents == {Words("q", k) : k \in 1..MaxWords}
FreeAnswers == {Words("x", k) : k \in 1..MaxWords}
SingleLetters == {<<L>> : L \in ABCD}
LetterStrings == {<<"A", "C">>, <<"B", "D">>, <<"A", "B", "D">>}
JudgeTokens == {<<DUI>>, <<ZHENG, QUE>>, <<TICK>>, <<CUO>>, <<CUO, WU>>, <<CROSS>>, <<"B">>}

\* <n>.<content> A.<a> B.<b> C.<c> D.<d> 答案：<answer>, every option of k words
ChoiceForm(n, content, k, answer) ==
  ChoiceParagraph(n, DOT, content, DOT, Words("a", k), Words("b", k), Words("c", k),
                  Words("d", k), FCOLON, answer)
\* <n>.<content> 答案：<token>
JudgeForm(n, content, token) == n \o <<DOT>> \o content \o <<SP>> \o AnswerLine(FCOLON, token)
\* <n>.<content> (___) 答案：<x>
BlankForm(n, content, x) ==
  n \o <<DOT>> \o content \o <<SP>> \o Blank \o <<SP>> \o AnswerLine(FCOLON, x)

Forms ==
  {ChoiceForm(n, content, k, answer) :
     n \in Numbers, content \in Contents, k \in 1..MaxWords,
     answer \in SingleLetters \cup LetterStrings}
  \cup {JudgeForm(n, content, token) : n \in Numbers, content \in Contents, token \in JudgeTokens}
  \cup {BlankForm(n, content, x) : n \in Numbers, content \in Contents, x \in FreeAnswers}

\* a document of one paragraph
InitForm == \E para \in Forms : Enter(join(<<para>>), <<para>>)

SpecForm == InitForm /\ [][Next]_vars

(* ------------------------------ the claims ----------------------------- *)
Done == pc = "done"
GrammarRank(g) ==
  CASE g = "single-choice" -> 1
    [] g = "multiple-choice" -> 2
    [] g = "fill-with-answer" -> 3
    [] g = "fill-scanner" -> 4
    [] g = "judge" -> 5
    [] g = "essay" -> 6
TypeOfGrammar(g) ==
  IF g \in {"fill-with-answer", "fill-scanner"} THEN "fill-blank" ELSE g
Grammars(qs) == {qs[k].grammar : k \in 1..Len(qs)}
Types(qs) == {qs[k].type : k \in 1..Len(qs)}
OfGrammar(qs, g) == SelectSeq(qs, LAMBDA q : q.grammar = g)
\* the records as the caller sees them, without the history fields
Visible(q) ==
  [type |-> q.type, content |-> q.content, options |-> q.options, answer |-> q.answer,
   explanation |-> q.explanation]
\* every record the engine holds, in the orchestrator's list or the fill-blank pass's
AllRecords == {questions[k] : k \in 1..Len(questions)} \cup {fb_questions[k] : k \in 1..Len(fb_questions)}

\* C1: the returned list is the single-choice records, then the multiple-choice
\* records, then the fill-blank records of the with-answer grammar, then those of
\* the scanner, then the judge records, then the essay records; inside each group
\* the records stand in the order of their matches (or flushes).
C1_ConcatenationOrder ==
  Done =>
    /\ questions = extract_single_choice(full_text) \o extract_multiple_choice(full_text)
                     \o fb_questions \o extract_judge(full_text) \o extract_essay(full_text)
    /\ OfGrammar(fb_questions, "fill-with-answer")
         = with_answer_records(full_text, with_answer_matches(full_text))
    /\ \A j, k \in 1..Len(questions) :
         j < k =>
           \/ GrammarRank(questions[j].grammar) < GrammarRank(questions[k].grammar)
           \/ /\ questions[j].grammar = questions[k].grammar
              /\ questions[j].pos < questions[k].pos

\* a returned list with records of four passes
C1_Witness ==
  /\ Done
  /\ Cardinality(Grammars(questions)) >= 4

\* C2: every record is well-formed for its type: the type is that of the grammar
\* that made it, the content is not empty after trimming, a choice record has
\* exactly 4 options and an answer, a judge record answers "true" or "false", an
\* essay record answers "", and only choice records have options.
C2_WellFormed ==
  \A q \in AllRecords :
    /\ q.type = TypeOfGrammar(q.grammar)
    /\ Len(strip(q.content)) > 0
    /\ q.type \in {"single-choice", "multiple-choice"} =>
         /\ Len(q.options) = 1
         /\ Len(q.options[1]) = 4
         /\ Len(q.answer) > 0
    /\ q.type = "judge" => q.answer \in {<<"true">>, <<"false">>}
    /\ q.type = "essay" => q.answer = <<>>
    /\ q.type \notin {"single-choice", "multiple-choice"} => q.options = <<>>

\* a returned list with a record of each choice type and a judge record
C2_Witness ==
  /\ Done
  /\ {"single-choice", "multiple-choice", "judge"} \subseteq Types(questions)

\* C3: every record has difficulty "medium", grade 1, subject "" and no images.
C3_Defaults ==
  \A q \in AllRecords :
    /\ q.difficulty = "medium"
    /\ q.grade = 1
    /\ q.subject = <<>>
    /\ q.images = <<>>

\* a returned list with a record of the scanner and a record of the essay grammar
C3_Witness ==
  /\ Done
  /\ {"fill-scanner", "essay"} \subseteq Grammars(questions)

\* C4: no input makes the orchestrator raise, and a text of white space alone (or
\* the empty text) with no paragraph gives the empty list.
C4_NeverRaises ==
  /\ error = "none"
  /\ pc # "raised"
  /\ (Done /\ Len(strip(full_text)) = 0 /\ Len(paragraphs) = 0) => questions = <<>>

\* the orchestrator returned for a text of white space alone
C4_Witness ==
  /\ Done
  /\ full_text \in BlankTexts
  /\ paragraphs = <<>>
  /\ questions = <<>>

\* the places in the returned list of the records of grammar g made inside lo..hi
RecordsIn(g, lo, hi) ==
  {k \in 1..Len(questions) :
     questions[k].grammar = g /\ lo <= questions[k].pos /\ questions[k].end <= hi}
OfType(qs, type) == SelectSeq(qs, LAMBDA q : q.type = type)
EndsWith(t, s) == Len(s) <= Len(t) /\ SubSeq(t, Len(t) - Len(s) + 1, Len(t)) = s

\* C5: no multiple-choice record has an answer of length <= 1; and for every span
\* the multiple-choice grammar matches with a single letter as its answer, no
\* multiple-choice record is made for the span and the single-choice grammar
\* makes exactly one record for it.
C5_SingleLetterSpans ==
  Done =>
    /\ \A k \in 1..Len(questions) :
         questions[k].type = "multiple-choice" => Len(questions[k].answer) > 1
    /\ LET ms == multiple_choice_matches(full_text)
       IN \A j \in 1..Len(ms) :
            Len(stripped(full_text, ms[j], 6)) = 1 =>
              /\ RecordsIn("multiple-choice", ms[j].s, ms[j].e) = {}
              /\ Cardinality(RecordsIn("single-choice", ms[j].s, ms[j].e)) = 1

\* a span the multiple-choice grammar matches with one letter, inside which the
\* single-choice grammar made two records
C5_Witness ==
  /\ Done
  /\ LET ms == multiple_choice_matches(full_text)
     IN \E j \in 1..Len(ms) :
          /\ Len(stripped(full_text, ms[j], 6)) = 1
          /\ Cardinality(RecordsIn("single-choice", ms[j].s, ms[j].e)) = 2

\* C6: a choice question whose answer line carries two or more letters of A-D
\* gives exactly one multiple-choice record, its answer the whole letter string,
\* and no single-choice record.
C6_MultipleLetters ==
  \A n \in Numbers, content \in Contents, k \in 1..MaxWords, answer \in LetterStrings :
    (Done /\ paragraphs = <<ChoiceForm(n, content, k, answer)>>) =>
      /\ Len(OfType(questions, "multiple-choice")) = 1
      /\ OfType(questions, "multiple-choice")[1].answer = answer
      /\ Len(OfType(questions, "single-choice")) = 0

\* the question answered AC returned with a single-choice record answering A
C6_Witness ==
  /\ Done
  /\ \E n \in Numbers, content \in Contents, k \in 1..MaxWords :
       paragraphs = <<ChoiceForm(n, content, k, <<"A", "C">>)>>
  /\ \E j \in 1..Len(questions) :
       questions[j].type = "single-choice" /\ questions[j].answer = <<"A">>

C8_JudgeNormalization ==
  \A n \in Numbers, content \in Contents, token \in JudgeTokens :
    (Done /\ paragraphs = <<JudgeForm(n, content, token)>>) =>
      /\ error = "none"
      /\ token \in {<<DUI>>, <<ZHENG, QUE>>, <<TICK>>} =>
           /\ Len(OfType(questions, "judge")) = 1
           /\ OfType(questions, "judge")[1].answer = <<"true">>
      /\ token \in {<<CUO>>, <<CUO, WU>>, <<CROSS>>} =>
           /\ Len(OfType(questions, "judge")) = 1
           /\ OfType(questions, "judge")[1].answer = <<"false">>
      /\ token \notin {<<DUI>>, <<ZHENG, QUE>>, <<TICK>>, <<CUO>>, <<CUO, WU>>, <<CROSS>>} =>
           Len(OfType(questions, "judge")) = 0

\* the statement answered 正确 returned with no judge record
C8_Witness ==
  /\ Done
  /\ \E n \in Numbers, content \in Contents :
       paragraphs = <<JudgeForm(n, content, <<ZHENG, QUE>>)>>
  /\ Len(OfType(questions, "judge")) = 0

\* a numbered paragraph with (___) and without the answer marker
IsBlankQuestion(para) ==
  is_question_start(para) /\ contains(para, Blank) /\ ~has_answer_marker(para)
\* a paragraph 答案：<x> or 答案:<x>
IsAnswerLine(para) ==
  Len(para) > 3 /\ SubSeq(para, 1, 2) = <<DA, AN>> /\ para[3] \in {COLON, FCOLON}

\* C9: where a numbered question with (___) is followed by its own answer line
\* 答案：<x>, the with-answer grammar makes exactly one fill-blank record for the
\* question, with answer x, and the scanner makes no record with empty answer
\* for the same question.
C9_ContainmentDedup ==
  Done =>
    \A k \in 1..(Len(paragraphs) - 1) :
      (IsBlankQuestion(paragraphs[k]) /\ IsAnswerLine(paragraphs[k + 1])) =>
        LET covering == {j \in 1..Len(questions) :
                           /\ questions[j].grammar = "fill-with-answer"
                           /\ EndsWith(questions[j].content, paragraphs[k])}
        IN /\ Cardinality(covering) = 1
           /\ \A j \in covering :
                questions[j].answer = SubSeq(paragraphs[k + 1], 4, Len(paragraphs[k + 1]))
           /\ \A j \in 1..Len(questions) :
                questions[j].grammar = "fill-scanner" => questions[j].content # paragraphs[k]

\* the orchestrator returned for the question and its answer line, the scanner
\* having come to the answer line with the question accumulated
C9_Witness ==
  /\ Done
  /\ Len(paragraphs) = 2
  /\ IsBlankQuestion(paragraphs[1])
  /\ IsAnswerLine(paragraphs[2])
  /\ Len(OfGrammar(questions, "fill-with-answer")) = 1

\* C10: one paragraph <n>.<text> (___) 答案：<x> gives exactly one fill-blank
\* record, with answer x; the flush at the end of the paragraphs adds no second.
C10_SameParagraphAnswer ==
  \A n \in Numbers, content \in Contents, x \in FreeAnswers :
    (Done /\ paragraphs = <<BlankForm(n, content, x)>>) =>
      /\ Len(OfType(questions, "fill-blank")) = 1
      /\ OfType(questions, "fill-blank")[1].answer = x

\* such a paragraph returned with a second fill-blank record, of the scanner, its
\* content the whole paragraph and its answer empty
C10_Witness ==
  /\ Done
  /\ \E n \in Numbers, content \in Contents, x \in FreeAnswers :
       paragraphs = <<BlankForm(n, content, x)>>
  /\ Len(OfType(questions, "fill-blank")) = 2
  /\ \E j \in 1..Len(questions) :
       /\ questions[j].grammar = "fill-scanner"
       /\ questions[j].content = paragraphs[1]
       /\ questions[j].answer = <<>>

\* a numbered paragraph with a blank marker and without the answer marker
IsUnansweredBlank(para) ==
  is_question_start(para) /\ has_blank_marker(para) /\ ~has_answer_marker(para)
\* the places in the returned list of the scanner's records with this content
ScannerRecordsOf(content) ==
  {j \in 1..Len(questions) :
     questions[j].grammar = "fill-scanner" /\ questions[j].content = content}

\* C11: where a numbered paragraph P with a blank marker and no answer line of
\* its own is directly followed by a numbered paragraph without blank marker,
\* the scanner makes exactly one fill-blank record for P, its answer "" and its
\* content P, and none for the paragraph that follows.
C11_UnansweredBlank ==
  Done =>
    \A k \in 1..(Len(paragraphs) - 1) :
      (/\ IsUnansweredBlank(paragraphs[k])
       /\ is_question_start(paragraphs[k + 1])
       /\ ~has_blank_marker(paragraphs[k + 1])) =>
        /\ Cardinality(ScannerRecordsOf(paragraphs[k])) = 1
        /\ \A j \in ScannerRecordsOf(paragraphs[k]) :
             questions[j].type = "fill-blank" /\ questions[j].answer = <<>>
        /\ ScannerRecordsOf(paragraphs[k + 1]) = {}

\* the question without answer followed by a judge question: returned with no
\* record of the scanner, and with a with-answer record that runs over both
\* paragraphs and takes the judge question's answer
C11_Witness ==
  /\ Done
  /\ Len(paragraphs) = 2
  /\ IsUnansweredBlank(paragraphs[1])
  /\ is_question_start(paragraphs[2])
  /\ ~has_blank_marker(paragraphs[2])
  /\ ScannerRecordsOf(paragraphs[1]) = {}
  /\ \E j \in 1..Len(questions) :
       /\ questions[j].grammar = "fill-with-answer"
       /\ contains(questions[j].content, paragraphs[1])
       /\ Len(questions[j].content) > Len(paragraphs[1])

\* C12: the fill-blank pass run again on the same text and paragraphs returns
\* the same list; it starts each time with no open question, no accumulated
\* line and no record of an earlier call.
C12_Idempotent ==
  /\ \A i, j \in 1..Len(fb_returned) : fb_returned[i] = fb_returned[j]
  /\ (pc = "scan" /\ para_idx = 1) =>
       /\ current_question = <<>>
       /\ current_content = <<>>
       /\ fb_questions = with_answer_records(full_text, with_answer_matches(full_text))

\* the second call has returned, after a first call that ended with a question
\* open and made a record of the scanner
C12_Witness ==
  /\ Len(fb_returned) = 2
  /\ Len(current_question) > 0
  /\ Len(OfGrammar(fb_returned[1], "fill-scanner")) > 0

(* ---------------------------------------------------------------------- *)
\* the task's file is of one of the listed formats other than Word, lies
\* within the size limit and is there to be fetched
ListedFormatWithinLimit ==
  /\ task # NoTask
  /\ task.kind \in {"pdf", "slides", "spreadsheet", "image", "text"}
  /\ task.ext \in supported_extensions
  /\ task.size = "within"
  /\ task.reachable

\* C13: for a task whose file is a PDF, a slide deck, a spreadsheet, an image
\* or a plain-text file within the size limit, download_file returns a local
\* path, and _process_document goes on to the conversion: once the download
\* step is over, file_path is set and the only failures are those of the
\* conversion itself (no converter installed, or the converter failing)
C13_IngestsEveryFormat ==
  (ListedFormatWithinLimit /\ pc # "download") =>
     /\ Len(file_path) > 0
     /\ pc \in {"dispatch", "markdown", "returned", "failed"}
     /\ pc = "failed" => error \in {"RuntimeError", "ConversionError"}

\* a PDF within the size limit was fetched and written to the temp directory,
\* and download_file raised on its first two bytes
C13_Witness ==
  /\ ListedFormatWithinLimit
  /\ task.kind = "pdf"
  /\ pc = "failed"
  /\ error = "ValueError"
  /\ file_path = <<>>
  /\ file_name(task) \in temp_dir

(* ---------------------------------------------------------------------- *)
\* the records of pattern 1 for the text at hand
WithAnswerRecords == with_answer_records(full_text, with_answer_matches(full_text))

\* C14: every with-answer record is in the list before the scanner evaluates
\* its first containment check: wherever the scanner loop stands, before its
\* first paragraph too, the list of the pass begins with all the with-answer
\* records of the text, and whatever follows them is a scanner record
C14_WithAnswerFirst ==
  pc = "scan" =>
    /\ Len(fb_questions) >= Len(WithAnswerRecords)
    /\ SubSeq(fb_questions, 1, Len(WithAnswerRecords)) = WithAnswerRecords
    /\ \A k \in Len(WithAnswerRecords) + 1..Len(fb_questions) :
         fb_questions[k].grammar = "fill-scanner"

\* the scanner has flushed a candidate with a blank marker, which put the
\* containment check to a list holding a with-answer record
C14_Witness ==
  /\ pc = "scan"
  /\ Len(WithAnswerRecords) > 0
  /\ current_question = <<>>
  /\ \E k \in 1..para_idx - 1 :
       /\ k <= Len(paragraphs)
       /\ is_question_start(paragraphs[k])
       /\ has_blank_marker(paragraphs[k])

(* ---------------------------------------------------------------------- *)
\* the next step of the scanner flushes the accumulator: the loop is over, or
\* the paragraph it reads starts a question or holds the answer marker
FlushDue ==
  /\ pc = "scan"
  /\ Len(current_question) > 0
  /\ Len(current_content) > 0
  /\ \/ para_idx > Len(paragraphs)
     \/ LET para == strip(paragraphs[para_idx])
        IN Len(para) > 0 /\ (is_question_start(para) \/ has_answer_marker(para))

\* the candidate a flush looks at
Candidate == strip(join(current_content))

\* some record of the list has the content c, or contains c, or lies within c
CoveredEitherWay(qs, c) ==
  \E k \in 1..Len(qs) :
    qs[k].content = c \/ contains(qs[k].content, c) \/ contains(c, qs[k].content)

\* C15: a flushed candidate is suppressed when an already-extracted fill-blank
\* record has the same content, or contains the candidate's content, or has a
\* content that the candidate contains: such a flush leaves the list as it was
C15_CoveredEitherDirection ==
  [][(FlushDue /\ CoveredEitherWay(fb_questions, Candidate)) => fb_questions' = fb_questions]_vars

\* a scanner record was emitted whose content contains the content of a
\* with-answer record of the same list
C15_Witness ==
  /\ Done
  /\ \E i, j \in 1..Len(questions) :
       /\ questions[i].grammar = "fill-with-answer"
       /\ questions[j].grammar = "fill-scanner"
       /\ contains(questions[j].content, questions[i].content)

(* ---------------------------------------------------------------------- *)
\* the list qs with one more record at its end: a fill-blank record with the
\* content c and the empty answer
EmitsOne(qs, qs2, c) ==
  /\ Len(qs2) = Len(qs) + 1
  /\ SubSeq(qs2, 1, Len(qs)) = qs
  /\ qs2[Len(qs2)].type = "fill-blank"
  /\ qs2[Len(qs2)].answer = <<>>
  /\ qs2[Len(qs2)].content = c

\* C16: a flush emits a record if and only if the joined and trimmed
\* accumulator holds a blank marker and is not covered by a record of the
\* with-answer grammar (equal to its content, or within it); the record is a
\* fill-blank record with the empty answer and that content, and when the
\* condition fails the list stays as it is
C16_FlushEmits ==
  [][FlushDue =>
       IF has_blank_marker(Candidate)
          /\ ~already_matched(OfGrammar(fb_questions, "fill-with-answer"), Candidate)
         THEN EmitsOne(fb_questions, fb_questions', Candidate)
         ELSE fb_questions' = fb_questions]_vars

\* a question with a blank that stands in the document twice, covered by no
\* with-answer record, came out as a single scanner record
C16_Witness ==
  /\ Done
  /\ Len(paragraphs) = 2
  /\ paragraphs[1] = paragraphs[2]
  /\ IsUnansweredBlank(paragraphs[1])
  /\ OfGrammar(questions, "fill-with-answer") = <<>>
  /\ Len(OfGrammar(questions, "fill-scanner")) = 1

(* ---------------------------------------------------------------------- *)
\* the scanner is about to read a paragraph, which is Arriving
Reading == pc = "scan" /\ para_idx <= Len(paragraphs)
Arriving == strip(paragraphs[para_idx])
\* a question is open
QuestionOpen == Len(current_question) > 0

\* what a flush of the accumulator as one candidate does to the list: the
\* candidate is appended as a fill-blank record with the empty answer when it
\* has a blank marker and no record of the list covers it, otherwise nothing is
FlushedAsOne ==
  IF has_blank_marker(Candidate) /\ ~already_matched(fb_questions, Candidate)
    THEN EmitsOne(fb_questions, fb_questions', Candidate)
    ELSE fb_questions' = fb_questions

\* C17: when a paragraph that begins with <digits><. or 、> arrives while a
\* question is open, the accumulator is flushed as one candidate, the new
\* accumulator holds that paragraph alone and the question stays open, also
\* when the paragraph contains 答案
C17_OpenStart ==
  [][(Reading /\ QuestionOpen /\ re_match(question_start_pattern, Arriving).ok) =>
       /\ FlushedAsOne
       /\ current_content' = <<Arriving>>
       /\ current_question' = <<Arriving>>]_vars

\* a numbered paragraph holding the answer marker arrived while a question
\* was open, and is the new accumulator
C17_Witness ==
  /\ pc = "scan"
  /\ para_idx = 3
  /\ is_question_start(paragraphs[1])
  /\ is_question_start(paragraphs[2])
  /\ has_answer_marker(paragraphs[2])
  /\ current_content = <<paragraphs[2]>>

(* ---------------------------------------------------------------------- *)
\* a paragraph with 答案 in it that does not start a question
AnswerMarkerOnly(para) ==
  Len(para) > 0 /\ contains(para, <<DA, AN>>) /\ ~re_match(question_start_pattern, para).ok

\* C18: when a paragraph that contains 答案 and does not begin with
\* <digits><. or 、> arrives while a question is open, the accumulator is
\* flushed as one candidate, then it is empty and no question is open; the
\* paragraph itself never is in an accumulator, so it is part of no candidate
C18_OpenAnswerMarker ==
  /\ [][(Reading /\ QuestionOpen /\ AnswerMarkerOnly(Arriving)) =>
          /\ FlushedAsOne
          /\ current_content' = <<>>
          /\ current_question' = <<>>]_vars
  /\ [](pc = "scan" =>
          \A k \in 1..Len(current_content) : ~AnswerMarkerOnly(current_content[k]))

\* an answer line arrived while a question was open, and closed it
C18_Witness ==
  /\ pc = "scan"
  /\ para_idx = 3
  /\ is_question_start(paragraphs[1])
  /\ AnswerMarkerOnly(paragraphs[2])
  /\ current_question = <<>>
  /\ current_content = <<>>

(* ---------------------------------------------------------------------- *)
\* the paragraphs before the k-th that start a question or hold 答案
Boundaries(k) ==
  {j \in 1..k - 1 : is_question_start(paragraphs[j]) \/ has_answer_marker(paragraphs[j])}
\* the greatest element of a non-empty set of numbers
Last(S) == CHOOSE j \in S : \A i \in S : i <= j
\* the k-th paragraph comes before the first question start, or after an
\* answer-marker paragraph and before the next question start
ArrivesIdle(k) ==
  Boundaries(k) = {} \/ ~is_question_start(paragraphs[Last(Boundaries(k))])
\* the paragraphs of the candidate flushed at loop position at: from the last
\* question start before it
CandidateParagraphs(at) ==
  LET starts == {j \in 1..at - 1 : is_question_start(paragraphs[j])}
  IN IF starts = {} THEN {} ELSE Last(starts)..at - 1

\* C19: a paragraph that arrives while no question is open and does not start
\* one leaves the open question, the accumulator and the list as they were,
\* and is in the content of no scanner record: every scanner record is the
\* joined paragraphs of its candidate, none of which arrived with no question
\* open unless it started one
C19_IdleNoOp ==
  /\ [][(Reading /\ ~QuestionOpen /\ ~re_match(question_start_pattern, Arriving).ok) =>
          UNCHANGED <<fb_questions, current_question, current_content>>]_vars
  /\ [](\A i \in 1..Len(fb_questions) :
          fb_questions[i].grammar = "fill-scanner" =>
            LET ks == CandidateParagraphs(fb_questions[i].pos)
            IN /\ ks # {}
               /\ fb_questions[i].content =
                    strip(join([k \in 1..Cardinality(ks) |->
                                  paragraphs[fb_questions[i].pos - Cardinality(ks) + k - 1]]))
               /\ \A k \in ks : is_question_start(paragraphs[k]) \/ ~ArrivesIdle(k))

\* the scan is over for a question, the answer line that closed it and a
\* paragraph that arrived after the answer line with no question open
C19_Witness ==
  /\ Done
  /\ Len(paragraphs) = 3
  /\ is_question_start(paragraphs[1])
  /\ AnswerMarkerOnly(paragraphs[2])
  /\ ArrivesIdle(3)
  /\ ~is_question_start(paragraphs[3])
  /\ ~has_answer_marker(paragraphs[3])

(* ---------------------------------------------------------------------- *)
\* the loop has read the last paragraph
EndOfStream == pc = "scan" /\ para_idx > Len(paragraphs)

\* C20: after the last paragraph an open question with a non-empty
\* accumulator is flushed, as one candidate and once (the step that flushes
\* it ends the pass, and the list the pass returned is the list after that
\* flush); with no question open nothing is flushed; and the scan terminates
\* after one pass: every step of the loop moves on by one paragraph, and the
\* loop once entered is left
C20_EndOfStream ==
  /\ [][EndOfStream =>
          /\ IF QuestionOpen /\ Len(current_content) > 0
               THEN FlushedAsOne
               ELSE fb_questions' = fb_questions
          /\ pc' = "judge"
          /\ fb_returned' = <<fb_questions'>>]_vars
  /\ [][(pc = "scan" /\ ~EndOfStream) => (pc' = "scan" /\ para_idx' = para_idx + 1)]_vars
  /\ [][pc = "judge" => fb_questions' = fb_questions]_vars
  /\ (pc = "scan") ~> (pc = "judge")

\* the pass has returned for a document whose last paragraph is a question
\* with a blank and no answer, flushed at the end of the stream
C20_Witness ==
  /\ pc = "judge"
  /\ Len(paragraphs) = MaxScanParas
  /\ IsUnansweredBlank(paragraphs[Len(paragraphs)])
  /\ \E i \in 1..Len(fb_questions) :
       /\ fb_questions[i].grammar = "fill-scanner"
       /\ fb_questions[i].pos = Len(paragraphs) + 1
       /\ fb_questions[i].content = paragraphs[Len(paragraphs)]

(* ---------------------------------------------------------------------- *)
\* a leading-number marker, <digits> and then . or 、, begins at position p of t
MarkerAt(t, p) == p <= Len(t) /\ re_match(question_start_pattern, SubSeq(t, p, Len(t))).ok

\* the text of t from position a is what follows a 答案 separator
AfterAnswerSeparator(t, a) ==
  a > 3 /\ SubSeq(t, a - 3, a - 2) = <<DA, AN>> /\ t[a - 1] \in {COLON, FCOLON}

\* C21: the answer of every with-answer record is the trimmed text that
\* follows the 答案 separator up to the next leading-number marker or, if
\* there is none, up to the end of the input, the lines of an answer of
\* several lines included: the record's match ends at a marker or at the end
\* of the input, no marker begins inside the answer, and the answer is the
\* trimmed text between the separator and that end
C21_AnswerUpToMarker ==
  Done =>
    \A i \in 1..Len(questions) :
      questions[i].grammar = "fill-with-answer" =>
        /\ questions[i].end = Len(full_text) + 1 \/ MarkerAt(full_text, questions[i].end)
        /\ \E a \in questions[i].pos..questions[i].end - 1 :
             /\ AfterAnswerSeparator(full_text, a)
             /\ questions[i].answer = strip(SubSeq(full_text, a, questions[i].end - 1))
             /\ \A p \in a + 1..questions[i].end - 1 : ~MarkerAt(full_text, p)

\* a with-answer record whose match ends at the end of a line with a line
\* after it that begins with no marker
C21_Witness ==
  /\ Done
  /\ \E i \in 1..Len(questions) :
       /\ questions[i].grammar = "fill-with-answer"
       /\ questions[i].end < Len(full_text)
       /\ full_text[questions[i].end] = NL
       /\ ~MarkerAt(full_text, questions[i].end + 1)

(* ---------------------------------------------------------------------- *)
\* the text of t from position a is what follows a 解析 separator
AfterExplanationSeparator(t, a) ==
  a > 3 /\ SubSeq(t, a - 3, a - 2) = <<JIE, XI>> /\ t[a - 1] \in {COLON, FCOLON}

\* C22: every match of the essay grammar gives one essay record, with the
\* empty answer, whose explanation is the trimmed text that follows the 解析
\* separator up to the next leading-number marker or, if there is none, the
\* end of the input
C22_EssayExplanation ==
  Done =>
    /\ Len(OfGrammar(questions, "essay")) = Len(essay_matches(full_text))
    /\ \A i \in 1..Len(questions) :
         questions[i].grammar = "essay" =>
           /\ questions[i].type = "essay"
           /\ questions[i].answer = <<>>
           /\ Len(questions[i].explanation) = 1
           /\ questions[i].end = Len(full_text) + 1 \/ MarkerAt(full_text, questions[i].end)
           /\ \E a \in questions[i].pos..questions[i].end - 1 :
                /\ AfterExplanationSeparator(full_text, a)
                /\ questions[i].explanation[1] = strip(SubSeq(full_text, a, questions[i].end - 1))
                /\ \A p \in a + 1..questions[i].end - 1 : ~MarkerAt(full_text, p)

\* an essay record whose match ends at the end of a line with a line after
\* it that begins with no marker
C22_Witness ==
  /\ Done
  /\ \E i \in 1..Len(questions) :
       /\ questions[i].grammar = "essay"
       /\ questions[i].end < Len(full_text)
       /\ full_text[questions[i].end] = NL
       /\ ~MarkerAt(full_text, questions[i].end + 1)

(* ---------------------------------------------------------------------- *)
\* the single-choice form with . or 、 after the number and after every
\* option letter
SeparatedChoiceForm ==
  <<Greedy(Digit, 1, 0), One(Sep), Greedy(Space, 0, 0), Lazy(Char, 1, 0)>> \o Spaces
    \o OptionGroup(2, "A", Sep) \o Spaces
    \o OptionGroup(3, "B", Sep) \o Spaces
    \o OptionGroup(4, "C", Sep) \o Spaces
    \o OptionGroup(5, "D", Sep)
    \o AnswerMark \o <<One(ABCD)>>

\* C23: the single-choice grammar emits a record only for a span in which the
\* number is followed by . or 、 and each of the letters A, B, C, D is
\* followed by . or 、: the span of every single-choice record has that form
C23_SeparatorsRequired ==
  Done =>
    \A i \in 1..Len(questions) :
      questions[i].grammar = "single-choice" =>
        re_match(SeparatedChoiceForm,
                 SubSeq(full_text, questions[i].pos, questions[i].end - 1)).ok

\* a single-choice record came from a span whose option letters are followed
\* by white space alone
C23_Witness ==
  /\ Done
  /\ \E i \in 1..Len(questions) :
       /\ questions[i].grammar = "single-choice"
       /\ contains(SubSeq(full_text, questions[i].pos, questions[i].end - 1), <<SP, "A", SP>>)
       /\ ~contains(SubSeq(full_text, questions[i].pos, questions[i].end - 1), <<"A", DOT>>)

(* ---------------------------------------------------------------------- *)
RECURSIVE Starts(_)
\* how many of the first n paragraphs start a question
Starts(n) ==
  IF n = 0 THEN 0
  ELSE Starts(n - 1) + (IF is_question_start(paragraphs[n]) THEN 1 ELSE 0)

\* the scanner loop and what comes after it in the call
InOrPastScan == pc \in {"scan", "judge", "essay", "done"}

\* C24: every accumulator opened by a question-start paragraph is flushed
\* exactly once: at any point of the scan the flushes so far, and the open
\* accumulator if there is one, are as many as the question starts read so
\* far, and after the scan the flushes are as many as the question starts;
\* every flushed candidate is a run of paragraphs that begins with a question
\* start; and the runs follow each other without a paragraph in common
C24_FlushedOnce ==
  InOrPastScan =>
    /\ Len(flushed) + (IF pc = "scan" /\ QuestionOpen THEN 1 ELSE 0)
         = Starts(IF pc = "scan" THEN para_idx - 1 ELSE Len(paragraphs))
    /\ \A i \in 1..Len(flushed) :
         LET n == Len(flushed[i].content)
         IN /\ n > 0
            /\ is_question_start(flushed[i].content[1])
            /\ flushed[i].at - n >= 1
            /\ flushed[i].content = SubSeq(paragraphs, flushed[i].at - n, flushed[i].at - 1)
            /\ i > 1 => flushed[i - 1].at <= flushed[i].at - n

\* the scan is over for a question closed by an answer line and a question
\* open at the end of the stream: two flushes
C24_Witness ==
  /\ Done
  /\ Len(paragraphs) = 3
  /\ AnswerMarkerOnly(paragraphs[2])
  /\ Len(flushed) = 2
  /\ flushed[1].at = 2
  /\ flushed[2].at = 4

(* ------------------------------- C25 ----------------------------------- *)
\* the message being handled carries the consume tag
Tagged == delivery > 0 /\ msg.tag = rocketmq_consume_tag

\* the positions in published of the results accepted during this delivery
ThisDelivery == { i \in DOMAIN published : published[i].delivery = delivery }

\* a "completed" result for the task was accepted during this delivery
CompletedNow ==
  \E i \in ThisDelivery :
    /\ published[i].status = "completed"
    /\ Len(task_id) > 0
    /\ published[i].task_id = task_id[1]

\* C25: a delivery of a message carrying the consume tag is acknowledged
\* with CONSUME_SUCCESS exactly when a "completed" result for its task was
\* published during that delivery; otherwise _handle_message returns
\* RECONSUME_LATER with no "completed" result published in the delivery; and
\* no delivery publishes more than one result
C25_SuccessIffCompleted ==
  Tagged =>
    /\ Cardinality(ThisDelivery) <= 1
    /\ pc = "handled" =>
         /\ consume_status \in {"CONSUME_SUCCESS", "RECONSUME_LATER"}
         /\ consume_status = "CONSUME_SUCCESS" <=> CompletedNow
         /\ consume_status = "RECONSUME_LATER" =>
              \A i \in ThisDelivery : published[i].status # "completed"

\* C25 witness: the second delivery of a message is acknowledged after its
\* "completed" result was published, the first having ended in a "failed" one
C25_Witness ==
  /\ Tagged
  /\ pc = "handled"
  /\ delivery = 2
  /\ consume_status = "CONSUME_SUCCESS"
  /\ CompletedNow
  /\ Len(published) = 2
  /\ published[1].status = "failed"

(* ------------------------------- C26 ----------------------------------- *)
\* C26: with a producer that can send, every delivery of a message carrying
\* the consume tag has published a result ("completed" or "failed") by the
\* time _handle_message returns, whatever step failed, so that no message
\* is redelivered without a result having been published for it
C26_ResultBeforeReturn ==
  (Tagged /\ producer = "up" /\ pc = "handled") => ThisDelivery # {}

\* C26 witness: a tagged message whose body lacks a required field has been
\* delivered MaxDeliveries times to a consumer whose producer can send, each
\* delivery returned RECONSUME_LATER, and no result was ever published
C26_Witness ==
  /\ Tagged
  /\ producer = "up"
  /\ msg.body.form = "invalid"
  /\ pc = "handled"
  /\ delivery = MaxDeliveries
  /\ consume_status = "RECONSUME_LATER"
  /\ published = <<>>

(* ------------------------------- C27 ----------------------------------- *)
\* what a delivery can change apart from the status it returns
Effects == <<parsed, task_id, task, file_path, temp_dir, published, questions, scanner, error>>

\* C27: a message with no tag or with a tag other than the consume tag is
\* acknowledged with CONSUME_SUCCESS in one step that changes nothing else:
\* the body is not parsed, no file is downloaded or created in the temp
\* directory, and no result is published
C27_TagFilter ==
  [][(pc = "receive" /\ msg.tag # rocketmq_consume_tag) =>
       /\ consume_status' = "CONSUME_SUCCESS"
       /\ pc' = "handled"
       /\ UNCHANGED Effects
       /\ UNCHANGED <<msg, producer, delivery>>]_vars

\* C27 witness: a message of another tag whose body is not JSON has been
\* acknowledged; nothing was parsed, written or published
C27_Witness ==
  /\ delivery = 1
  /\ msg.tag = "document.convert.result"
  /\ msg.body.form = "not-json"
  /\ pc = "handled"
  /\ consume_status = "CONSUME_SUCCESS"
  /\ ~parsed
  /\ temp_dir = {}
  /\ published = <<>>

(* ------------------------------- C28 ----------------------------------- *)
\* _process_document has returned its questions or raised
Finished == pc \in {"returned", "failed"}

\* C28: when _process_document has finished, by returning questions or by
\* raising at any step, no file it wrote into the temp directory is left there
C28_TempDirClean ==
  (delivery = 0 /\ Finished) => temp_dir = {}

\* C28 witness: the Word file of the task was empty; download_file wrote the
\* copy, raised ValueError on its size, and _process_document raised with
\* the copy still in the temp directory
C28_Witness ==
  /\ delivery = 0
  /\ task.kind = "word"
  /\ task.ext = ".docx"
  /\ task.size = "empty"
  /\ pc = "failed"
  /\ error = "ValueError"
  /\ file_path = <<>>
  /\ temp_dir = {file_name(task)}

(* ------------------------------- C29 ----------------------------------- *)
\* thread i has its local copy from download_file and has not finished parsing it
Parsing(i) == thread_pc[i] \in {"parse", "open"}

\* C29: while a task is between its download and the end of its parsing, the
\* file at its local path is the copy it downloaded: no other task handled
\* at the same time has overwritten or deleted it, whatever the file names
\* at the end of the two URLs
C29_CopyUntouched ==
  \A i \in Threads : thread_pc # <<>> /\ Parsing(i) => temp_files[thread_file[i]] = i

\* C29 witness: two tasks whose URLs end in the same file name; thread 1 is
\* about to open its copy, thread 2 has finished and its cleanup has removed
\* the file
C29_Witness ==
  /\ thread_pc # <<>>
  /\ thread_file[1] = thread_file[2]
  /\ thread_pc[1] = "open"
  /\ thread_pc[2] = "done"
  /\ temp_files[thread_file[1]] = 0

(* ------------------------------- C30 ----------------------------------- *)
\* the fields of the records of a list that a caller sees, in order
VisibleList(qs) == [k \in 1..Len(qs) |-> Visible(qs[k])]

\* C30: for the text of a document, parse_markdown_to_questions returns the
\* list _extract_questions returns for the text and its paragraphs: the same
\* records (type, content, options, answer, explanation) in the same order
C30_EntryPointsAgree ==
  Done => VisibleList(parse_markdown_to_questions(full_text)) = VisibleList(questions)

\* C30 witness: _extract_questions has returned one fill-blank record, made
\* by the paragraph scanner from a question without answer, and
\* parse_markdown_to_questions returns nothing for the same text
C30_Witness ==
  /\ Done
  /\ Len(questions) = 1
  /\ questions[1].type = "fill-blank"
  /\ questions[1].answer = <<>>
  /\ parse_markdown_to_questions(full_text) = <<>>

====
